---------------------------- MODULE Spec2Model ----------------------------
(***************************************************************************)
(* State-machine model of the Jakarta exhaustion trading system:           *)
(*   core/risk_system.py       RiskSystem (circuit breakers)                *)
(*   core/session_manager.py   SessionManager (time-windowed states)        *)
(*   core/execution_handler.py ExecutionHandler (paper positions)           *)
(*   main.py                   JakartaTradingSystem.run (orchestration)     *)
(*                                                                         *)
(* Units.  Money is in whole dollars.  Fractions (drawdown, BTC ATR) are   *)
(* in basis points, 1/10000, so 0.015 is 150 and 0.02 is 200.  Time is in  *)
(* seconds of Jakarta local time since 00:00 of day 0 (UTC+7, no DST).     *)
(***************************************************************************)
EXTENDS Integers, Sequences, FiniteSets, TLC

VARIABLES
    risk,         \* the RiskSystem object
    risk_before,  \* history: the RiskSystem object before the last call
    call,         \* history: the last call made, its argument and result
    clock,        \* wall-clock time, Jakarta local, seconds since day 0 00:00
    session,      \* the SessionManager object
    returned,     \* history: what the last SessionManager call returned
    execution,    \* the ExecutionHandler object
    sys,          \* the JakartaTradingSystem object's own fields (main.py)
    loop          \* history: what the orchestration loop did last, and per-day counts

vars == <<risk, risk_before, call, clock, session, returned, execution, sys, loop>>

(***************************************************************************)
(* Bounds of the model                                                     *)
(***************************************************************************)
MaxAbsPnl == 600       \* |daily_pnl| explored up to this many dollars
MaxErrorCount == 7     \* check_api_failures is called with 0..MaxErrorCount
MaxDays == 2           \* the clock runs over days 0 .. MaxDays-1
MaxHistory == 4        \* trade_history is explored up to this many records
ExploredSeconds == 60  \* SpecTrading iterates this long after each state change
MaxTradingCoins == 2   \* SpecTrading selects up to this many coins
MaxBars == 6           \* the short series of SpecAnalytics have up to this many bars

\* Python's None, for fields that otherwise hold a non-negative number
None == 0 - 1
\* denominator of the basis-point representation of fractions
FractionScale == 100 * 100

(***************************************************************************)
(* core/risk_system.py                                                     *)
(***************************************************************************)
BreakerNames == {"high_volatility", "api_failure", "exceeded_drawdown"}

\* RiskSystem.__init__
RiskSystem_init(max_daily_drawdown, btc_atr_threshold) ==
    [ max_daily_drawdown |-> max_daily_drawdown,
      btc_atr_threshold  |-> btc_atr_threshold,
      daily_pnl          |-> 0,
      starting_balance   |-> None,
      circuit_breakers   |-> [k \in BreakerNames |-> FALSE] ]

\* the static example balance get_current_balance returns
StaticBalance == 10000

\* RiskSystem.get_current_balance: the balance does not depend on daily_pnl
get_current_balance(self) == StaticBalance

\* mutant: the daily reset forgets the api_failure breaker
reset_daily_keeps_api(self) ==
    [self EXCEPT !.daily_pnl = 0,
                 !.starting_balance = get_current_balance(self),
                 !.circuit_breakers =
                     [k \in DOMAIN @ |-> IF k = "api_failure" THEN @[k] ELSE FALSE]]

\* RiskSystem.reset_daily
reset_daily(self) ==
    [self EXCEPT !.daily_pnl = 0,
                 !.starting_balance = get_current_balance(self),
                 !.circuit_breakers = [k \in DOMAIN @ |-> FALSE]]

\* RiskSystem.update_pnl raises TypeError at the drawdown division when
\* starting_balance is still None (no reset_daily yet)
update_pnl_raises(self) == self.starting_balance = None

\* RiskSystem.update_pnl.  daily_pnl is accumulated first; the drawdown is
\* (starting_balance - current_balance) / starting_balance >= max_daily_drawdown,
\* cross-multiplied by starting_balance > 0 and by FractionScale.
update_pnl(self, amount) ==
    LET s1 == [self EXCEPT !.daily_pnl = @ + amount]
        current_balance == get_current_balance(s1)
    IN  IF update_pnl_raises(s1) THEN s1
        ELSE IF (s1.starting_balance - current_balance) * FractionScale
                    >= s1.max_daily_drawdown * s1.starting_balance
             THEN [s1 EXCEPT !.circuit_breakers["exceeded_drawdown"] = TRUE]
             ELSE s1

\* mutant: the volatility breaker latches (the else branch is missing)
check_btc_volatility_latched(self, btc_atr_1h) ==
    IF btc_atr_1h > self.btc_atr_threshold
    THEN [self EXCEPT !.circuit_breakers["high_volatility"] = TRUE]
    ELSE self

\* RiskSystem.check_btc_volatility
check_btc_volatility(self, btc_atr_1h) ==
    IF btc_atr_1h > self.btc_atr_threshold
    THEN [self EXCEPT !.circuit_breakers["high_volatility"] = TRUE]
    ELSE [self EXCEPT !.circuit_breakers["high_volatility"] = FALSE]

\* mutant: the api breaker is re-evaluated on every call instead of latched
check_api_failures_unlatched(self, error_count) ==
    [self EXCEPT !.circuit_breakers["api_failure"] = (error_count > 5)]

\* mutant: the breaker trips at five errors already
check_api_failures_at_five(self, error_count) ==
    IF error_count >= 5
    THEN [self EXCEPT !.circuit_breakers["api_failure"] = TRUE]
    ELSE self

\* mutant: too many errors trip every breaker
check_api_failures_trips_all(self, error_count) ==
    IF error_count > 5
    THEN [self EXCEPT !.circuit_breakers = [k \in DOMAIN @ |-> TRUE]]
    ELSE self

\* RiskSystem.check_api_failures
check_api_failures(self, error_count) ==
    IF error_count > 5
    THEN [self EXCEPT !.circuit_breakers["api_failure"] = TRUE]
    ELSE self

\* mutant: all() instead of any()
trading_allowed_not_all(self) ==
    ~ (\A k \in DOMAIN self.circuit_breakers : self.circuit_breakers[k])

\* RiskSystem.trading_allowed: not any(self.circuit_breakers.values())
trading_allowed(self) ==
    ~ (\E k \in DOMAIN self.circuit_breakers : self.circuit_breakers[k])

(***************************************************************************)
(* Calls on a RiskSystem, in any order (specification SpecRisk)            *)
(***************************************************************************)
\* thresholds.yaml values the constructor is given: max_daily_drawdown 1.5%
\* (the default of main.py) or 0 (the tightest limit), btc_atr_1h 2%
DrawdownLimits == {150, 0}
AtrThresholds == {200}
\* arguments of the calls: the amounts and ATR values of test_risk_system,
\* the ATR default of main.py (1%), and the threshold itself
PnlAmounts == {0 - 300, 150, 0 - 200}
AtrInputs == {100, 200, 250}

NoCall == [op |-> "init", arg |-> 0, raised |-> FALSE, ret |-> TRUE]

\* a call: the object afterwards, and in the history the call, whether it
\* raised, and what trading_allowed() returns on the object afterwards
RiskCall(op, arg, raised, after) ==
    /\ risk' = after
    /\ risk_before' = risk
    /\ call' = [op |-> op, arg |-> arg, raised |-> raised, ret |-> trading_allowed(after)]
    /\ UNCHANGED <<clock, session, returned, execution, sys, loop>>

RiskResetDaily == RiskCall("reset_daily", 0, FALSE, reset_daily(risk))

RiskUpdatePnl ==
    \E amount \in PnlAmounts :
        /\ risk.daily_pnl + amount <= MaxAbsPnl
        /\ risk.daily_pnl + amount >= 0 - MaxAbsPnl
        /\ RiskCall("update_pnl", amount, update_pnl_raises(risk), update_pnl(risk, amount))

RiskCheckBtcVolatility ==
    \E x \in AtrInputs :
        RiskCall("check_btc_volatility", x, FALSE, check_btc_volatility(risk, x))

RiskCheckApiFailures ==
    \E n \in 0..MaxErrorCount :
        RiskCall("check_api_failures", n, FALSE, check_api_failures(risk, n))

\* trading_allowed() is a read: the object is left as it is
RiskTradingAllowed == RiskCall("trading_allowed", 0, FALSE, risk)

(***************************************************************************)
(* core/session_manager.py                                                 *)
(***************************************************************************)
SecondsPerDay == 24 * 60 * 60

\* datetime.time(h, m) as seconds since midnight
time(h, m) == h * 3600 + m * 60

\* now.time(): the time of day of a datetime
time_of(now) == now % SecondsPerDay

\* now.replace(hour=h, minute=m, second=0, microsecond=0)
replace(now, h, m) == (now - time_of(now)) + time(h, m)

\* SessionManager.__init__
SessionManager_init ==
    [ current_state |-> "None", next_state_change |-> None, next_state_name |-> "None" ]

\* SessionManager._time_in_range: both ends inclusive
time_in_range(start, end, current) == start <= current /\ current <= end

\* SessionManager.determine_session_state, the if/elif chain: the state at
\* `now`, and the next change and next state computed beside it
session_at(now) ==
    LET current_time == time_of(now)
        PRE_SESSION_START == time(18, 45)
        PRE_SESSION_END   == time(19, 0)
        SCANNING_START    == time(19, 0)
        SCANNING_END      == time(19, 15)
        GOLDEN_HOUR_START == time(19, 30)
        GOLDEN_HOUR_END   == time(20, 30)
        MANAGEMENT_START  == time(20, 30)
        MANAGEMENT_END    == time(22, 30)
        EXIT_WINDOW_START == time(22, 30)
        EXIT_WINDOW_END   == time(22, 45)
        next_session      == replace(now, 18, 45)
    IN  IF time_in_range(PRE_SESSION_START, PRE_SESSION_END, current_time)
        THEN [state |-> "PRE_SESSION", next_change |-> replace(now, 19, 0),
              next_state |-> "SCANNING"]
        ELSE IF time_in_range(SCANNING_START, SCANNING_END, current_time)
        THEN [state |-> "SCANNING", next_change |-> replace(now, 19, 30),
              next_state |-> "GOLDEN_HOUR"]
        ELSE IF time_in_range(GOLDEN_HOUR_START, GOLDEN_HOUR_END, current_time)
        THEN [state |-> "GOLDEN_HOUR", next_change |-> replace(now, 20, 30),
              next_state |-> "MANAGEMENT"]
        ELSE IF time_in_range(MANAGEMENT_START, MANAGEMENT_END, current_time)
        THEN [state |-> "MANAGEMENT", next_change |-> replace(now, 22, 30),
              next_state |-> "EXIT_WINDOW"]
        ELSE IF time_in_range(EXIT_WINDOW_START, EXIT_WINDOW_END, current_time)
        THEN [state |-> "EXIT_WINDOW", next_change |-> replace(now, 22, 45),
              next_state |-> "SHUTDOWN"]
        ELSE [state |-> "SHUTDOWN",
              next_change |-> IF current_time < PRE_SESSION_START
                              THEN next_session
                              ELSE next_session + SecondsPerDay,
              next_state |-> "PRE_SESSION"]

\* mutant: the stored state is returned until the stored change is due
determine_session_state_result_stored(self, now) ==
    IF self.current_state # "None" /\ now < self.next_state_change
    THEN self.current_state
    ELSE session_at(now).state

\* SessionManager.determine_session_state, the value returned: `state` is
\* assigned in the if/elif chain from now.time() alone; self.current_state
\* is read only to decide whether to store
determine_session_state_result(self, now) == session_at(now).state

\* SessionManager.determine_session_state, the object afterwards: the three
\* fields are stored only when the state differs from the stored one
determine_session_state(self, now) ==
    LET s == session_at(now)
    IN  IF s.state # self.current_state
        THEN [ current_state |-> s.state, next_state_change |-> s.next_change,
               next_state_name |-> s.next_state ]
        ELSE self

\* SessionManager.get_next_state_info: (next_state_name, (hours, minutes))
get_next_state_info(self, now) ==
    IF self.next_state_change = None
    THEN [name |-> "N/A", hours |-> 0, minutes |-> 0]
    ELSE LET time_diff == self.next_state_change - now
             total_minutes == time_diff \div 60
         IN  IF time_diff < 0
             THEN [name |-> "N/A", hours |-> 0, minutes |-> 0]
             ELSE [name |-> self.next_state_name,
                   hours |-> total_minutes \div 60, minutes |-> total_minutes % 60]

\* SessionManager.should_trade
should_trade(self, now) ==
    determine_session_state_result(self, now) \in {"GOLDEN_HOUR", "MANAGEMENT"}

\* SessionManager.wait_until_next_session: the instant the sleep ends
wait_until_next_session(now) ==
    LET next_session == replace(now, 18, 45)
    IN  IF now > next_session THEN next_session + SecondsPerDay ELSE next_session

(***************************************************************************)
(* Calls on a SessionManager at non-decreasing times (SpecSession)         *)
(***************************************************************************)
\* The windows begin and end on multiples of a quarter of an hour, so every
\* quarter is represented by its first instant and by one instant inside it.
Quarter == 15 * 60
QuartersPerDay == 24 * 4
\* the first call is made at any such instant of day 0
ClockStarts == { q * Quarter + inside : q \in 0..(QuartersPerDay - 1), inside \in {0, 30} }
ClockSteps == {Quarter, 4 * Quarter, 48 * Quarter}

\* history of the last call: its name, the instant it was made, whether the
\* object was freshly constructed, and its result
NoReturn ==
    [ op |-> "none", at |-> 0, fresh |-> FALSE,
      state |-> "None", name |-> "None", hours |-> 0, minutes |-> 0, allowed |-> FALSE ]

\* time passes
SessTick ==
    \E d \in ClockSteps :
        /\ clock + d < MaxDays * SecondsPerDay
        /\ clock' = clock + d
        /\ UNCHANGED <<risk, risk_before, call, session, returned, execution, sys, loop>>

SessDetermine ==
    /\ session' = determine_session_state(session, clock)
    /\ returned' = [NoReturn EXCEPT !.op = "determine_session_state",
                                    !.at = clock,
                                    !.fresh = (session = SessionManager_init),
                                    !.state = determine_session_state_result(session, clock)]
    /\ UNCHANGED <<risk, risk_before, call, clock, execution, sys, loop>>

SessNextStateInfo ==
    /\ returned' = LET r == get_next_state_info(session, clock)
                   IN  [NoReturn EXCEPT !.op = "get_next_state_info", !.at = clock,
                                        !.name = r.name,
                                        !.hours = r.hours, !.minutes = r.minutes]
    /\ UNCHANGED <<risk, risk_before, call, clock, session, execution, sys, loop>>

\* should_trade calls determine_session_state, which stores the fields, and
\* tests the state it returns
SessShouldTrade ==
    /\ session' = determine_session_state(session, clock)
    /\ returned' = [NoReturn EXCEPT !.op = "should_trade",
                                    !.at = clock,
                                    !.fresh = (session = SessionManager_init),
                                    !.state = determine_session_state_result(session, clock),
                                    !.allowed = should_trade(session, clock)]
    /\ UNCHANGED <<risk, risk_before, call, clock, execution, sys, loop>>

\* the process is restarted: a fresh SessionManager is constructed
SessRestart ==
    /\ session # SessionManager_init
    /\ session' = SessionManager_init
    /\ returned' = NoReturn
    /\ UNCHANGED <<risk, risk_before, call, clock, execution, sys, loop>>

(***************************************************************************)
(* core/execution_handler.py                                               *)
(* Prices and sizes are Python floats; they are kept here as exact         *)
(* fractions [num, den] in lowest terms with den > 0, so that a product, a *)
(* quotient or a difference is the number the expression denotes (float    *)
(* rounding is not represented).  BTC volatility is in basis points like   *)
(* the other fractions of the configuration.                               *)
(*                                                                         *)
(* open_positions is a dict keyed by symbol, kept here in insertion order  *)
(* as a sequence of orders with distinct symbols.  An order in             *)
(* open_positions is the same object as its record in trade_history; its   *)
(* field ref is the index of that record, so that a change of the order    *)
(* shows in both places.  The time-stamped id and timestamp fields are     *)
(* left out; the field kind tells an order record from a close record.     *)
(***************************************************************************)
Symbols == {"PEPEUSDT", "WIFUSDT", "BONKUSDT"}

Abs(n) == IF n < 0 THEN 0 - n ELSE n

RECURSIVE gcd(_, _)
gcd(a, b) == IF b = 0 THEN a ELSE gcd(b, a % b)

\* the number n / d, d > 0, in lowest terms
Frac(n, d) == LET g == gcd(Abs(n), d) IN [num |-> n \div g, den |-> d \div g]

\* x * y, reduced crosswise before multiplying
Mul(x, y) ==
    LET g1 == gcd(Abs(x.num), y.den)
        g2 == gcd(Abs(y.num), x.den)
    IN  Frac((x.num \div g1) * (y.num \div g2), (x.den \div g2) * (y.den \div g1))

\* x / y, y > 0
Div(x, y) == Mul(x, [num |-> y.den, den |-> y.num])

\* x - y and x + y, over the least common denominator
Sub(x, y) ==
    LET g == gcd(x.den, y.den)
    IN  Frac(x.num * (y.den \div g) - y.num * (x.den \div g), (x.den \div g) * y.den)
Add(x, y) == Sub(x, [num |-> 0 - y.num, den |-> y.den])

\* x < y
Less(x, y) == x.num * y.den < y.num * x.den

\* ExecutionHandler() as main.py constructs it: risk_per_trade = 100.0
DefaultRiskPerTrade == 100

\* ExecutionHandler.__init__
ExecutionHandler_init ==
    [ risk_per_trade |-> Frac(DefaultRiskPerTrade, 1),
      open_positions |-> <<>>, trade_history |-> <<>> ]

\* mutant: the 40% reduction is applied from 2% on, not above 2%
calculate_position_size_reduced_at_two(self, entry_price, atr, btc_volatility) ==
    LET multiplier == IF btc_volatility < 100 THEN Frac(50, 100)
                      ELSE IF btc_volatility < 200 THEN Frac(42, 100)
                      ELSE Frac(30, 100)
        size == Div(self.risk_per_trade, Mul(entry_price, Mul(multiplier, atr)))
    IN  IF btc_volatility >= 200 THEN Mul(size, Frac(6, 10)) ELSE size

\* ExecutionHandler.calculate_position_size: a read of risk_per_trade only
calculate_position_size(self, entry_price, atr, btc_volatility) ==
    LET multiplier == IF btc_volatility < 100 THEN Frac(50, 100)
                      ELSE IF btc_volatility < 200 THEN Frac(42, 100)
                      ELSE Frac(30, 100)
        sl_distance == Mul(entry_price, Mul(multiplier, atr))
        size == Div(self.risk_per_trade, sl_distance)
    IN  IF btc_volatility > 200 THEN Mul(size, Frac(6, 10)) ELSE size

\* mutant: the last two levels close 30% each
generate_tp_levels_overweight(self, entry, atr) ==
    << [price |-> Sub(entry, Mul(Frac(1, 1), atr)), size |-> 50],
       [price |-> Sub(entry, Mul(Frac(2, 1), atr)), size |-> 30],
       [price |-> Sub(entry, Mul(Frac(3, 1), atr)), size |-> 30] >>

\* ExecutionHandler.generate_tp_levels: the list of {'price', 'size'} dicts
generate_tp_levels(self, entry, atr) ==
    << [price |-> Sub(entry, Mul(Frac(1, 1), atr)), size |-> 50],
       [price |-> Sub(entry, Mul(Frac(2, 1), atr)), size |-> 30],
       [price |-> Sub(entry, Mul(Frac(3, 1), atr)), size |-> 20] >>

\* the position of `symbol` in open_positions, 0 when it has none
position_index(self, symbol) ==
    LET hits == {i \in DOMAIN self.open_positions : self.open_positions[i].symbol = symbol}
    IN  IF hits = {} THEN 0 ELSE CHOOSE i \in hits : TRUE

\* mutant: an order for a symbol that has a position overwrites the record
\* of that position instead of being appended
simulate_order_overwrites(self, symbol, side, entry_price, size, sl_distance, tp_levels) ==
    LET sl_price == IF side = "sell"
                    THEN Sub(entry_price, sl_distance)
                    ELSE Add(entry_price, sl_distance)
        i == position_index(self, symbol)
        ref == IF i = 0 THEN Len(self.trade_history) + 1 ELSE self.open_positions[i].ref
        order == [ kind |-> "order", symbol |-> symbol, side |-> side,
                   price |-> entry_price, size |-> size, sl |-> sl_price,
                   tps |-> tp_levels, status |-> "open", ref |-> ref ]
    IN  [self EXCEPT !.open_positions = IF i = 0 THEN Append(@, order)
                                        ELSE [@ EXCEPT ![i] = order],
                     !.trade_history = IF i = 0 THEN Append(@, order)
                                       ELSE [@ EXCEPT ![ref] = order]]

\* ExecutionHandler.simulate_order, the object afterwards.  The assignment
\* open_positions[symbol] = order replaces the value of a key the dict has
\* (the key keeps its place) and adds the key otherwise.
simulate_order(self, symbol, side, entry_price, size, sl_distance, tp_levels) ==
    LET sl_price == IF side = "sell"
                    THEN Sub(entry_price, sl_distance)
                    ELSE Add(entry_price, sl_distance)
        order == [ kind |-> "order", symbol |-> symbol, side |-> side,
                   price |-> entry_price, size |-> size, sl |-> sl_price,
                   tps |-> tp_levels, status |-> "open",
                   ref |-> Len(self.trade_history) + 1 ]
        i == position_index(self, symbol)
    IN  [self EXCEPT !.open_positions = IF i = 0 THEN Append(@, order)
                                        ELSE [@ EXCEPT ![i] = order],
                     !.trade_history = Append(@, order)]

\* a sequence without its i-th element (del dict[key])
without(seq, i) == [j \in 1..(Len(seq) - 1) |-> IF j < i THEN seq[j] ELSE seq[j + 1]]

\* ExecutionHandler.simulate_close, the close order it builds for a position
close_order_of(position, percentage) ==
    [ kind |-> "close", symbol |-> position.symbol,
      side |-> IF position.side = "sell" THEN "buy" ELSE "sell",
      size |-> Mul(position.size, Frac(percentage, 100)),
      percentage |-> percentage, status |-> "closed", ref |-> 0 ]

\* Python's None where the other results are dicts
NoneResult == [kind |-> "none"]

\* ExecutionHandler.simulate_close, the value returned: None without a
\* position, the close order otherwise
simulate_close_result(self, symbol, percentage) ==
    LET i == position_index(self, symbol)
    IN  IF i = 0 THEN NoneResult ELSE close_order_of(self.open_positions[i], percentage)

\* mutant: a partial close records the close and leaves the position's size
simulate_close_keeps_size(self, symbol, percentage) ==
    LET i == position_index(self, symbol)
    IN  IF i = 0 THEN self
        ELSE
        LET position == self.open_positions[i]
            close_order == close_order_of(position, percentage)
        IN  IF percentage >= 100
            THEN [self EXCEPT
                     !.open_positions = without(@, i),
                     !.trade_history =
                         Append([@ EXCEPT ![position.ref].status = "closed"], close_order)]
            ELSE [self EXCEPT !.trade_history = Append(@, close_order)]

\* mutant: the missing position is not checked for, and an empty close is
\* recorded for the symbol
simulate_close_unchecked(self, symbol, percentage) ==
    LET i == position_index(self, symbol)
        position == IF i = 0
                    THEN [symbol |-> symbol, side |-> "sell", size |-> Frac(0, 1), ref |-> 0]
                    ELSE self.open_positions[i]
        close_order == close_order_of(position, percentage)
    IN  IF i = 0
        THEN [self EXCEPT !.trade_history = Append(@, close_order)]
        ELSE IF percentage >= 100
        THEN [self EXCEPT
                 !.open_positions = without(@, i),
                 !.trade_history =
                     Append([@ EXCEPT ![position.ref].status = "closed"], close_order)]
        ELSE [self EXCEPT
                 !.open_positions = [@ EXCEPT ![i].size = Sub(@, close_order.size)],
                 !.trade_history =
                     Append([@ EXCEPT ![position.ref].size = Sub(@, close_order.size)],
                            close_order)]

\* ExecutionHandler.simulate_close, the object afterwards
simulate_close(self, symbol, percentage) ==
    LET i == position_index(self, symbol)
    IN  IF i = 0 THEN self
        ELSE
        LET position == self.open_positions[i]
            close_order == close_order_of(position, percentage)
            close_size == close_order.size
        IN  IF percentage >= 100
            THEN [self EXCEPT
                     !.open_positions = without(@, i),
                     !.trade_history =
                         Append([@ EXCEPT ![position.ref].status = "closed"], close_order)]
            ELSE [self EXCEPT
                     !.open_positions = [@ EXCEPT ![i].size = Sub(@, close_size)],
                     !.trade_history =
                         Append([@ EXCEPT ![position.ref].size = Sub(@, close_size)],
                                close_order)]

(***************************************************************************)
(* Calls on an ExecutionHandler, in any order (specification SpecExec)     *)
(***************************************************************************)
\* arguments of the calls: the values of test_execution_handler (entry 60000,
\* ATR 1500, volatility 0.8%, 1.5%, 2.5%, size 0.005, stop distance 1% of the
\* entry, closes of 50% and 100%), the volatility tier boundaries 1% and 2%
\* and their neighbours, a second price pair and size, and closes of 25% and
\* of more than 100%
ExecSymbols == {"PEPEUSDT", "WIFUSDT"}
Markets == { [entry |-> e, atr |-> a] : e \in {Frac(60000, 1), Frac(3, 10)},
                                        a \in {Frac(1500, 1), Frac(2, 100)} }
\* risk_per_trade the handler is constructed with: 100 (the default, and the
\* value of the test), 50 and 250
RiskBudgets == {Frac(DefaultRiskPerTrade, 1), Frac(50, 1), Frac(250, 1)}
BtcVolatilities == {80, 99, 100, 150, 199, 200, 201, 250}
Orders == { [side |-> "sell", size |-> Frac(5, 1000)],
            [side |-> "buy", size |-> Frac(1000, 21)] }
Percentages == {25, 50, 100, 150}

\* history of the last call, with the size each symbol's tracked position was
\* opened with (zero for a symbol never ordered)
NoExecCall ==
    [ op |-> "init", arg |-> <<>>, raised |-> FALSE, ret |-> NoneResult,
      opened |-> [s \in Symbols |-> Frac(0, 1)] ]

ExecCall(op, arg, ret, after, opened) ==
    /\ Len(after.trade_history) <= MaxHistory
    /\ execution' = after
    /\ call' = [op |-> op, arg |-> arg, raised |-> FALSE, ret |-> ret, opened |-> opened]
    /\ UNCHANGED <<risk, risk_before, clock, session, returned, sys, loop>>

ExecCalculatePositionSize ==
    \E m \in Markets, btc_volatility \in BtcVolatilities :
        ExecCall("calculate_position_size",
                 [entry_price |-> m.entry, atr |-> m.atr, btc_volatility |-> btc_volatility],
                 calculate_position_size(execution, m.entry, m.atr, btc_volatility),
                 execution, call.opened)

ExecGenerateTpLevels ==
    \E m \in Markets :
        ExecCall("generate_tp_levels", [entry |-> m.entry, atr |-> m.atr],
                 generate_tp_levels(execution, m.entry, m.atr), execution, call.opened)

\* simulate_order returns the order it has recorded
ExecSimulateOrder ==
    \E symbol \in ExecSymbols, o \in Orders :
        LET entry_price == Frac(60000, 1)
            side == o.side
            size == o.size
            after == simulate_order(execution, symbol, side, entry_price, size,
                                    Mul(entry_price, Frac(1, 100)),
                                    generate_tp_levels(execution, entry_price, Frac(1500, 1)))
        IN  ExecCall("simulate_order", [symbol |-> symbol, side |-> side, size |-> size],
                     after.trade_history[Len(after.trade_history)], after,
                     [call.opened EXCEPT ![symbol] = size])

ExecSimulateClose ==
    \E symbol \in ExecSymbols, percentage \in Percentages :
        ExecCall("simulate_close", [symbol |-> symbol, percentage |-> percentage],
                 simulate_close_result(execution, symbol, percentage),
                 simulate_close(execution, symbol, percentage), call.opened)

(***************************************************************************)
(* core/analytics_engine.py                                                *)
(* A DataFrame is a list of bars in index order, each bar a record of the  *)
(* columns the methods read, with exact fractions for the float values.    *)
(* The index labels are the bars' timestamps, all different, so that       *)
(* df.at[label, 'rsi'] is the rsi of the bar the label was taken from.     *)
(***************************************************************************)
\* x <= y, the smaller of two numbers, and |x|
LessEq(x, y) == ~ Less(y, x)
min(x, y) == IF Less(y, x) THEN y ELSE x
abs(x) == [num |-> Abs(x.num), den |-> x.den]

\* the thresholds of config/thresholds.yaml as test_analytics_engine names
\* them: EMA distance 4.8%, RSI 70, volume 3.7x, wick ratio 0.6, VWAP
\* deviation 5%, liquidation distance 1.5%
Thresholds ==
    [ rsi_threshold |-> Frac(70, 1), ema_distance |-> Frac(48, 10),
      volume_spike |-> Frac(37, 10), wick_ratio |-> Frac(6, 10),
      vwap_deviation |-> Frac(5, 100), liquidation_proximity |-> Frac(15, 10) ]

\* AnalyticsEngine.__init__
AnalyticsEngine_init(thresholds) == [thresholds |-> thresholds]

\* the default of the parameter lookback
DefaultLookback == 5

\* previous_highs.idxmax(): the first of the bars holding the maximum
idxmax(highs) ==
    CHOOSE i \in DOMAIN highs :
        /\ \A k \in DOMAIN highs : LessEq(highs[k], highs[i])
        /\ \A k \in DOMAIN highs : k < i => Less(highs[k], highs[i])

\* mutant: the reference bar is the last of the bars holding the maximum
detect_rsi_divergence_last_high(df, lookback) ==
    IF Len(df) < lookback + 1 THEN FALSE
    ELSE LET recent_data == SubSeq(df, Len(df) - lookback, Len(df))
             previous_highs == [i \in 1..lookback |-> recent_data[i].high]
             last_index == CHOOSE i \in 1..lookback :
                               /\ \A k \in 1..lookback : LessEq(previous_highs[k], previous_highs[i])
                               /\ \A k \in 1..lookback : k > i => Less(previous_highs[k], previous_highs[i])
             current_candle == recent_data[lookback + 1]
         IN  /\ Less(Frac(70, 1), current_candle.rsi)
             /\ Less(previous_highs[last_index], current_candle.high)
             /\ Less(current_candle.rsi, recent_data[last_index].rsi)

\* AnalyticsEngine.detect_rsi_divergence (a staticmethod of df and lookback)
detect_rsi_divergence(df, lookback) ==
    IF Len(df) < lookback + 1 THEN FALSE
    ELSE LET recent_data == SubSeq(df, Len(df) - lookback, Len(df))
             previous_highs == [i \in 1..lookback |-> recent_data[i].high]
             previous_high_index == idxmax(previous_highs)
             previous_max_high == previous_highs[previous_high_index]
             current_candle == recent_data[lookback + 1]
             current_high == current_candle.high
             current_rsi == current_candle.rsi
             previous_high_rsi == recent_data[previous_high_index].rsi
         IN  /\ Less(Frac(70, 1), current_rsi)
             /\ Less(previous_max_high, current_high)
             /\ Less(current_rsi, previous_high_rsi)

\* (ema5 - close) / close * 100 and |liquidation_price - close| / close * 100
ema_distance_of(current) ==
    Mul(Div(Sub(current.ema5, current.close), current.close), Frac(100, 1))
price_distance_of(current, liquidation_price) ==
    Mul(Div(abs(Sub(liquidation_price, current.close)), current.close), Frac(100, 1))

\* AnalyticsEngine.calculate_exhaustion_score, the five components computed
\* on the last bar of a frame of 20 bars or more
score_components(self, df, liquidation_price) ==
    LET current == df[Len(df)]
        t == self.thresholds
        volume_ratio == Div(current.volume, current.volume_sma20)
        ema_distance == ema_distance_of(current)
        price_distance == price_distance_of(current, liquidation_price)
    IN  [ rsi |-> IF Less(t.rsi_threshold, current.rsi)
                  THEN min(Mul(Sub(current.rsi, t.rsi_threshold), Frac(3, 10)), Frac(3, 1))
                  ELSE Frac(0, 1),
          wick |-> min(Mul(current.wick_ratio, Frac(25, 1)), Frac(25, 10)),
          volume |-> IF Less(t.volume_spike, volume_ratio)
                     THEN min(Mul(Sub(volume_ratio, t.volume_spike), Frac(5, 1)), Frac(2, 1))
                     ELSE Frac(0, 1),
          ema |-> IF Less(t.ema_distance, ema_distance)
                  THEN min(Mul(Sub(ema_distance, t.ema_distance), Frac(3125, 1000)),
                           Frac(15, 10))
                  ELSE Frac(0, 1),
          liquidation |-> min(Mul(Sub(t.liquidation_proximity,
                                      min(price_distance, t.liquidation_proximity)),
                                  Frac(6667, 100)),
                              Frac(1, 1)) ]

\* sum([...]) of the five components
total_score(c) == Add(Add(Add(Add(c.rsi, c.wick), c.volume), c.ema), c.liquidation)

\* AnalyticsEngine.calculate_exhaustion_score, the body, with its three
\* parameters bound
calculate_exhaustion_score(self, df, liquidation_price) ==
    IF Len(df) < 20 THEN Frac(0, 1)
    ELSE min(total_score(score_components(self, df, liquidation_price)), Frac(10, 1))

\* mutant: rsi_ok leaves the divergence out
detect_entry_signals_no_divergence(self, df, liquidation_price) ==
    LET current == df[Len(df)]
        t == self.thresholds
        ema_ok == Less(t.ema_distance, ema_distance_of(current))
        rsi_ok == Less(t.rsi_threshold, current.rsi)
        vol_ok == Less(Mul(current.volume_sma20, t.volume_spike), current.volume)
        wick_ok == Less(t.wick_ratio, current.wick_ratio)
        vwap_ok == Less(Mul(current.vwap, Add(Frac(1, 1), t.vwap_deviation)), current.close)
        liq_ok == Less(price_distance_of(current, liquidation_price), t.liquidation_proximity)
    IN  IF Len(df) < 20
        THEN [ ema_ok |-> FALSE, rsi_ok |-> FALSE, vol_ok |-> FALSE, wick_ok |-> FALSE,
               vwap_ok |-> FALSE, liq_ok |-> FALSE, all_ok |-> FALSE ]
        ELSE [ ema_ok |-> ema_ok, rsi_ok |-> rsi_ok, vol_ok |-> vol_ok, wick_ok |-> wick_ok,
               vwap_ok |-> vwap_ok, liq_ok |-> liq_ok,
               all_ok |-> ema_ok /\ rsi_ok /\ vol_ok /\ wick_ok /\ vwap_ok /\ liq_ok ]

\* AnalyticsEngine.detect_entry_signals, the body, with its three parameters
\* bound; self.detect_rsi_divergence(df) is called with the default lookback
detect_entry_signals(self, df, liquidation_price) ==
    LET current == df[Len(df)]
        t == self.thresholds
        ema_ok == Less(t.ema_distance, ema_distance_of(current))
        rsi_ok == Less(t.rsi_threshold, current.rsi) /\ detect_rsi_divergence(df, DefaultLookback)
        vol_ok == Less(Mul(current.volume_sma20, t.volume_spike), current.volume)
        wick_ok == Less(t.wick_ratio, current.wick_ratio)
        vwap_ok == Less(Mul(current.vwap, Add(Frac(1, 1), t.vwap_deviation)), current.close)
        liq_ok == Less(price_distance_of(current, liquidation_price), t.liquidation_proximity)
    IN  IF Len(df) < 20
        THEN [ ema_ok |-> FALSE, rsi_ok |-> FALSE, vol_ok |-> FALSE, wick_ok |-> FALSE,
               vwap_ok |-> FALSE, liq_ok |-> FALSE, all_ok |-> FALSE ]
        ELSE [ ema_ok |-> ema_ok, rsi_ok |-> rsi_ok, vol_ok |-> vol_ok, wick_ok |-> wick_ok,
               vwap_ok |-> vwap_ok, liq_ok |-> liq_ok,
               all_ok |-> ema_ok /\ rsi_ok /\ vol_ok /\ wick_ok /\ vwap_ok /\ liq_ok ]

\* calculate_exhaustion_score and detect_entry_signals are declared
\* @staticmethod with the parameters (self, df, liquidation_price): nothing
\* is bound when they are called on an instance, so the positional arguments
\* fill the parameters from `self` on, and a call with fewer than three
\* raises TypeError (missing required positional argument) before the body
static_call_raises(args) == Len(args) # 3

calculate_exhaustion_score_call(args) ==
    IF static_call_raises(args) THEN [raised |-> TRUE, ret |-> NoneResult]
    ELSE [raised |-> FALSE, ret |-> calculate_exhaustion_score(args[1], args[2], args[3])]

detect_entry_signals_call(args) ==
    IF static_call_raises(args) THEN [raised |-> TRUE, ret |-> NoneResult]
    ELSE [raised |-> FALSE, ret |-> detect_entry_signals(args[1], args[2], args[3])]

\* the arguments of a call on the engine: engine.f(df, liquidation_price), as
\* main.py and test_analytics_engine write it, or with the engine passed
\* again for `self`, engine.f(engine, df, liquidation_price)
CallForms == {"instance", "explicit_self"}
arguments(form, engine, df, liquidation_price) ==
    IF form = "instance" THEN <<df, liquidation_price>>
    ELSE <<engine, df, liquidation_price>>

(***************************************************************************)
(* Calls on an AnalyticsEngine (specification SpecAnalytics): a frame and  *)
(* a liquidation price are drawn, and the three methods are called on them *)
(***************************************************************************)
\* a bar away from every threshold, with a high below those of the bars below
FillerBar ==
    [ high |-> Frac(990, 1), close |-> Frac(985, 1), rsi |-> Frac(65, 1),
      ema5 |-> Frac(985, 1), volume |-> Frac(25000, 1), volume_sma20 |-> Frac(25000, 1),
      wick_ratio |-> Frac(1, 2), vwap |-> Frac(900, 1), atr |-> Frac(1, 10) ]

\* short series, for the divergence: every list of at most MaxBars bars whose
\* (high, rsi) is one of five pairs: equal highs with different rsi, an rsi
\* of exactly 70, equal rsi with different highs
DivergenceBars ==
    { [FillerBar EXCEPT !.high = Frac(b[1], 1), !.rsi = Frac(b[2], 1)] :
        b \in { <<150, 85>>, <<150, 75>>, <<151, 80>>, <<149, 70>>, <<152, 75>> } }
ShortSeries == UNION { [1..n -> DivergenceBars] : n \in 0..MaxBars }
Lookbacks == {1, 2, DefaultLookback}

\* frames of 19, 20 and 21 bars, for the score and the signals: filler bars,
\* then a bar with a lower high and an rsi of 85 or 72, then a last bar
\* (close 1000, high 1004) with each indicator at, just above and far above
\* its threshold
FrameLengths == {19, 20, 21}
PreviousBars ==
    { [FillerBar EXCEPT !.high = Frac(1002, 1), !.rsi = Frac(r, 1)] : r \in {85, 72} }
LastBars ==
    { [ high |-> Frac(1004, 1), close |-> Frac(1000, 1), rsi |-> Frac(r, 1),
        ema5 |-> Frac(e, 1), volume |-> Frac(v, 1), volume_sma20 |-> Frac(25000, 1),
        wick_ratio |-> w, vwap |-> Frac(a, 1), atr |-> Frac(1, 10) ] :
        r \in {70, 75, 90}, e \in {1000, 1050, 1100}, v \in {92500, 100000, 125000},
        w \in {Frac(0, 1), Frac(1, 20), Frac(9, 11)}, a \in {900, 1000} }
Frame(n, previous, last) ==
    [i \in 1..n |-> IF i = n THEN last ELSE IF i = n - 1 THEN previous ELSE FillerBar]
Frames == { Frame(n, p, l) : n \in FrameLengths, p \in PreviousBars, l \in LastBars }
\* liquidation prices 0.5%, 1.49%, exactly 1.5% and 10% from the close
LiquidationPrices == { Frac(1005, 1), Frac(10149, 10), Frac(1015, 1), Frac(1100, 1) }

AnalyticsInputs ==
    { [df |-> d, liquidation_price |-> Frac(1005, 1)] : d \in ShortSeries }
        \cup { [df |-> d, liquidation_price |-> q] : d \in Frames, q \in LiquidationPrices }

\* history of the last call: the frame and price drawn, how the call was
\* written, whether it raised and what it returned
NoAnalyticsCall(input) ==
    [ op |-> "init", raised |-> FALSE, ret |-> NoneResult,
      arg |-> [ df |-> input.df, liquidation_price |-> input.liquidation_price,
                form |-> "instance", lookback |-> DefaultLookback ] ]

AnalyticsCall(op, form, lookback, r) ==
    /\ call' = [ op |-> op, raised |-> r.raised, ret |-> r.ret,
                 arg |-> [call.arg EXCEPT !.form = form, !.lookback = lookback] ]
    /\ UNCHANGED <<risk, risk_before, clock, session, returned, execution, sys, loop>>

AnalyticsDetectRsiDivergence ==
    \E lookback \in Lookbacks :
        AnalyticsCall("detect_rsi_divergence", "instance", lookback,
                      [raised |-> FALSE, ret |-> detect_rsi_divergence(call.arg.df, lookback)])

AnalyticsCalculateExhaustionScore ==
    \E form \in CallForms :
        AnalyticsCall("calculate_exhaustion_score", form, DefaultLookback,
                      calculate_exhaustion_score_call(
                          arguments(form, AnalyticsEngine_init(Thresholds),
                                    call.arg.df, call.arg.liquidation_price)))

AnalyticsDetectEntrySignals ==
    \E form \in CallForms :
        AnalyticsCall("detect_entry_signals", form, DefaultLookback,
                      detect_entry_signals_call(
                          arguments(form, AnalyticsEngine_init(Thresholds),
                                    call.arg.df, call.arg.liquidation_price)))

(***************************************************************************)
(* main.py: JakartaTradingSystem                                           *)
(***************************************************************************)
\* JakartaTradingSystem.__init__: the fields of the object besides its
\* components; the process is run without --test
JakartaTradingSystem_init == [ test_mode |-> FALSE, selected_coins |-> <<>>, btc_volatility |-> 0 ]

\* the default BTC volatility of pre_session_checks, 1%
DefaultBtcVolatility == 100

\* fetch_candles returns a list: [] on a failed fetch, rows otherwise.  With
\* rows, `candles and not candles.empty` raises AttributeError (a list has no
\* attribute empty) before reset_daily is reached.
pre_session_checks_raises(candles) == candles = "rows"

\* JakartaTradingSystem.pre_session_checks: the fields and the risk object afterwards
pre_session_checks(self, rsk, candles) ==
    IF pre_session_checks_raises(candles)
    THEN [ sys |-> self, risk |-> rsk, resets |-> 0 ]
    ELSE LET self1 == [self EXCEPT !.btc_volatility = DefaultBtcVolatility]
         IN  [ sys |-> self1,
               risk |-> check_btc_volatility(reset_daily(rsk), self1.btc_volatility),
               resets |-> 1 ]

\* the lists coin_selection can leave in selected_coins: the three test coins
\* when no ticker is received, otherwise the filtered tickers (at most five)
CoinSelections ==
    { <<"PEPEUSDT", "WIFUSDT", "BONKUSDT">>, <<>>, <<"WIFUSDT">>, <<"BONKUSDT", "PEPEUSDT">> }

\* JakartaTradingSystem.coin_selection
coin_selection(self, selected) == [self EXCEPT !.selected_coins = selected]

\* JakartaTradingSystem.execute_trades for one symbol.  The symbol is skipped
\* without candles, without liquidation clusters or with an empty indicator
\* frame; otherwise self.analytics.calculate_exhaustion_score(df, nearest_liq)
\* is called: the method is a staticmethod that declares self, so the call
\* lacks one argument and raises TypeError, which the per-symbol handler
\* catches.  As written, no evaluation gets past that call.
TradeOutcomes == {"no_candles", "no_liquidation", "empty_indicators", "score_raises"}

\* The rest of the evaluation, main.py:226-253, is what runs once the two
\* analytics calls return (as test_analytics_engine calls them): the
\* conditions score >= 7.0 and signals['all_ok'] are not met, or they are met
\* and the order is placed.
ScoredOutcomes == TradeOutcomes \cup {"conditions_not_met", "signal"}

\* the market data of an evaluation that gets that far: the indicator frame,
\* the price of the first liquidation cluster and the last ATR of the frame.
\* The last bar of the exhausted frame passes every gate (score 8.5), that of
\* the quiet frame passes none but the liquidation distance (score 1.0).
ExhaustedBar ==
    [ high |-> Frac(1004, 1), close |-> Frac(1000, 1), rsi |-> Frac(75, 1),
      ema5 |-> Frac(1100, 1), volume |-> Frac(125000, 1), volume_sma20 |-> Frac(25000, 1),
      wick_ratio |-> Frac(9, 11), vwap |-> Frac(900, 1), atr |-> Frac(1, 10) ]
QuietBar ==
    [ ExhaustedBar EXCEPT !.rsi = Frac(70, 1), !.ema5 = Frac(1000, 1),
                          !.volume = Frac(92500, 1), !.wick_ratio = Frac(0, 1),
                          !.vwap = Frac(1000, 1) ]
\* main.py:220, `nearest_liq = liq_clusters[0]['price']`: the first cluster
\* of the list fetch_liquidation_clusters returns, which is in the order of
\* the response
nearest_liq(liq_clusters) == liq_clusters[1].price

\* what the evaluation of a symbol with candles and clusters works on: the
\* indicator frame, the fetched clusters, the price taken from them and the
\* atr of the last bar
Market(last, liq_clusters) ==
    LET df == Frame(20, [FillerBar EXCEPT !.high = Frac(1002, 1), !.rsi = Frac(85, 1)], last)
    IN  [ df |-> df, liq_clusters |-> liq_clusters,
          nearest_liq |-> nearest_liq(liq_clusters), atr |-> df[Len(df)].atr ]
\* one cluster at the close, or a cluster 20% away listed before it
ClusterLists ==
    { << [price |-> Frac(1000, 1)] >>,
      << [price |-> Frac(1200, 1)], [price |-> Frac(1000, 1)] >> }
TradeMarkets ==
    { Market(ExhaustedBar, c) : c \in ClusterLists }
        \cup { Market(QuietBar, << [price |-> Frac(1000, 1)] >>) }

\* main.py:230, `score >= 7.0 and signals['all_ok']`, on what the two
\* analytics bodies compute for the frame and the cluster price
conditions_met(engine, market) ==
    /\ LessEq(Frac(7, 1), calculate_exhaustion_score(engine, market.df, market.nearest_liq))
    /\ detect_entry_signals(engine, market.df, market.nearest_liq).all_ok

\* mutant: the score alone decides, all_ok is not consulted
scored_outcome_score_only(engine, form, market) ==
    IF LessEq(Frac(7, 1), calculate_exhaustion_score(engine, market.df, market.nearest_liq))
    THEN "signal" ELSE "conditions_not_met"

\* how the evaluation of a symbol with candles, clusters and indicators goes
\* on from main.py:223: the score call raises or, when the calls return, the
\* conditions decide
scored_outcome(engine, form, market) ==
    IF \/ calculate_exhaustion_score_call(
              arguments(form, engine, market.df, market.nearest_liq)).raised
       \/ detect_entry_signals_call(
              arguments(form, engine, market.df, market.nearest_liq)).raised
    THEN "score_raises"
    ELSE IF conditions_met(engine, market) THEN "signal" ELSE "conditions_not_met"

\* the evaluations of one symbol that end in one of `outcomes`: the
\* outcome, the market data met, and whether the data meet the conditions of
\* main.py:230.  A symbol skipped for want of data has none (the quiet market
\* stands in).
Evaluations(outcomes) ==
    LET engine == AnalyticsEngine_init(Thresholds)
    IN  { [outcome |-> o, market |-> Market(QuietBar, << [price |-> Frac(1000, 1)] >>),
           met |-> FALSE] :
            o \in outcomes \cap {"no_candles", "no_liquidation", "empty_indicators"} }
        \cup
        { e \in { [outcome |-> scored_outcome(engine, form, mk), market |-> mk,
                   met |-> conditions_met(engine, mk)] :
                     form \in CallForms, mk \in TradeMarkets } :
            e.outcome \in outcomes }

execute_trade(exec, btc_volatility, symbol, outcome, market) ==
    IF outcome = "signal"
    THEN LET entry_price == Mul(market.nearest_liq, Frac(997, 1000))
             atr == market.atr
             size == calculate_position_size(exec, entry_price, atr, btc_volatility)
             tp_levels == generate_tp_levels(exec, entry_price, atr)
         IN  simulate_order(exec, symbol, "sell", entry_price, size,
                            Mul(entry_price, Mul(Frac(42, 10000), atr)), tp_levels)
    ELSE exec

\* mutant: a symbol without liquidation clusters ends the loop (return
\* where the code has continue)
RECURSIVE execute_trades_returns_without_clusters(_, _, _, _, _)
execute_trades_returns_without_clusters(exec, btc_volatility, coins, outcome, market) ==
    IF coins = <<>> \/ outcome[Head(coins)] = "no_liquidation" THEN exec
    ELSE execute_trades_returns_without_clusters(
             execute_trade(exec, btc_volatility, Head(coins), outcome[Head(coins)],
                           market[Head(coins)]),
             btc_volatility, Tail(coins), outcome, market)

\* JakartaTradingSystem.execute_trades: the symbols of selected_coins in
\* order; outcome[symbol] is how the evaluation of the symbol goes and
\* market[symbol] the data it meets.  Each evaluation is inside its own
\* try/except, so one that raises leaves the handler as it was and the loop
\* goes on to the next symbol.
RECURSIVE execute_trades(_, _, _, _, _)
execute_trades(exec, btc_volatility, coins, outcome, market) ==
    IF coins = <<>> THEN exec
    ELSE execute_trades(
             execute_trade(exec, btc_volatility, Head(coins), outcome[Head(coins)],
                           market[Head(coins)]),
             btc_volatility, Tail(coins), outcome, market)

\* mutant: the branch is taken when trading_allowed() is false
golden_hour_when_blocked(exec, rsk, self, outcome, market) ==
    IF ~ trading_allowed(rsk)
    THEN execute_trades(exec, self.btc_volatility, self.selected_coins, outcome, market)
    ELSE exec

\* mutant: the branch is taken whatever trading_allowed() says
golden_hour_ungated(exec, rsk, self, outcome, market) ==
    execute_trades(exec, self.btc_volatility, self.selected_coins, outcome, market)

\* JakartaTradingSystem.run, the branch
\* `elif state == "GOLDEN_HOUR" and self.risk.trading_allowed()`
golden_hour(exec, rsk, self, outcome, market) ==
    IF trading_allowed(rsk)
    THEN execute_trades(exec, self.btc_volatility, self.selected_coins, outcome, market)
    ELSE exec

\* JakartaTradingSystem.exit_positions: every open symbol, in dict order
RECURSIVE close_each(_, _, _)
close_each(exec, symbols, percentage) ==
    IF symbols = <<>> THEN exec
    ELSE close_each(simulate_close(exec, Head(symbols), percentage), Tail(symbols), percentage)

\* mutant: the percentage is 50 whatever `partial` says
exit_positions_always_partial(exec, partial) ==
    close_each(exec, [i \in DOMAIN exec.open_positions |-> exec.open_positions[i].symbol], 50)

exit_positions(exec, partial) ==
    close_each(exec, [i \in DOMAIN exec.open_positions |-> exec.open_positions[i].symbol],
               IF partial THEN 50 ELSE 100)

\* JakartaTradingSystem.manage_positions prints pos['entry'], a key no order
\* has: with an open position it raises KeyError; it changes nothing
manage_positions_raises(exec) == exec.open_positions # <<>>

\* mutant: monitoring closes half of every position
manage_positions_closes_half(exec) == exit_positions(exec, TRUE)

\* JakartaTradingSystem.manage_positions, the handler afterwards: the method
\* only reads and prints
manage_positions(exec) == exec

\* the sleep of the except branch of run
ErrorSleepSeconds == 30

(***************************************************************************)
(* The orchestration loop (SpecMain): one action per iteration of run, by  *)
(* the session state it finds.  Every iteration ends in the except branch: *)
(* the handler raised, or the sleep time min(tuple * 3600, 30) raises      *)
(* TypeError; either way the loop sleeps ErrorSleepSeconds.                *)
(***************************************************************************)
\* when the process is started (time of day 0)
StartTimes == { time(12, 0), time(18, 44), time(19, 45), time(22, 29) }
\* time the awaited fetches of an iteration take, beside the sleep
Latencies == {0, 30}

day_of(now) == now \div SecondsPerDay

\* the state the last iteration found, whether its handler raised, for the
\* day of that iteration the reset_daily calls and PRE_SESSION iterations so
\* far, the handler as the iteration found it, and while the loop iterates in
\* EXIT_WINDOW the handler as the first of these iterations found it
\* what is remembered of the evaluation of a symbol: how it ended, whether
\* the data met the trade condition, the close of the last bar, the clusters
\* fetched and the liquidation price handed to the analytics calls (none
\* when the symbol was skipped before main.py:220)
Skipped(outcome) ==
    [ outcome |-> outcome, met |-> FALSE, close |-> Frac(0, 1),
      liq_clusters |-> <<>>, nearest_liq |-> Frac(0, 1) ]
Evaluated(evaluation) ==
    IF evaluation.outcome \in {"no_candles", "no_liquidation", "empty_indicators"}
    THEN Skipped(evaluation.outcome)
    ELSE LET market == evaluation.market
         IN  [ outcome |-> evaluation.outcome, met |-> evaluation.met,
               close |-> market.df[Len(market.df)].close,
               liq_clusters |-> market.liq_clusters,
               nearest_liq |-> market.nearest_liq ]
NotEvaluated == [s \in Symbols |-> Skipped("none")]
NoLoop ==
    [ state |-> "none", raised |-> FALSE, day |-> 0, resets |-> 0, pre_iterations |-> 0,
      before |-> ExecutionHandler_init, entered |-> ExecutionHandler_init,
      scan_iterations |-> 0, golden_iterations |-> 0, running |-> TRUE,
      evaluated |-> NotEvaluated ]

\* mutant: an exception in a state handler ends the loop
run_continues_unless_raised(raised) == ~ raised

\* JakartaTradingSystem.run: the body of `while True` is one try statement
\* whose `except Exception` prints and sleeps, and there is no break or
\* return: whether or not the handler raised, the loop iterates again
run_continues(raised) == TRUE

\* the end of an iteration that found `state`: the session object is updated
\* by determine_session_state, the per-day counts by the handler, and the
\* loop sleeps from `awake`, the instant the handler is done
EndIterationWith(state, raised, resets, awake, evaluated) ==
    \E latency \in Latencies :
        LET today == day_of(clock)
            same == loop.day = today /\ loop.state # "none"
        IN  /\ loop.running
            /\ awake + ErrorSleepSeconds + latency < MaxDays * SecondsPerDay
            /\ clock' = awake + ErrorSleepSeconds + latency
            /\ session' = determine_session_state(session, clock)
            /\ loop' = [ state |-> state,
                         raised |-> raised,
                         day |-> today,
                         resets |-> (IF same THEN loop.resets ELSE 0) + resets,
                         pre_iterations |-> (IF same THEN loop.pre_iterations ELSE 0)
                                            + (IF state = "PRE_SESSION" THEN 1 ELSE 0),
                         before |-> execution,
                         entered |-> IF state # "EXIT_WINDOW" THEN ExecutionHandler_init
                                     ELSE IF same /\ loop.state = "EXIT_WINDOW"
                                          THEN loop.entered
                                          ELSE execution,
                         scan_iterations |-> (IF same THEN loop.scan_iterations ELSE 0)
                                             + (IF state = "SCANNING" THEN 1 ELSE 0),
                         golden_iterations |-> (IF same THEN loop.golden_iterations ELSE 0)
                                               + (IF state = "GOLDEN_HOUR" THEN 1 ELSE 0),
                         running |-> run_continues(raised),
                         evaluated |-> evaluated ]
            /\ UNCHANGED <<risk_before, call, returned>>

EndIteration(state, raised, resets, awake) ==
    EndIterationWith(state, raised, resets, awake, NotEvaluated)

Found(state) == determine_session_state_result(session, clock) = state

MainPreSession ==
    /\ Found("PRE_SESSION")
    /\ \E candles \in {"empty", "rows"} :
           LET r == pre_session_checks(sys, risk, candles)
           IN  /\ sys' = r.sys
               /\ risk' = r.risk
               /\ EndIteration("PRE_SESSION", pre_session_checks_raises(candles), r.resets, clock)
    /\ UNCHANGED execution

MainScanning ==
    /\ Found("SCANNING")
    /\ \E selected \in CoinSelections : sys' = coin_selection(sys, selected)
    /\ EndIteration("SCANNING", FALSE, 0, clock)
    /\ UNCHANGED <<risk, execution>>

\* the elements of a list
Range(seq) == {seq[i] : i \in DOMAIN seq}

\* the evaluations of the loop as written, and those of SpecTrading
MainEvaluations == Evaluations(TradeOutcomes)
TradingEvaluations == Evaluations(ScoredOutcomes)

\* a GOLDEN_HOUR iteration in which each evaluation is one of `evaluations`
GoldenHour(evaluations) ==
    /\ Found("GOLDEN_HOUR")
    /\ \E evaluation \in [Range(sys.selected_coins) -> evaluations] :
           LET selected == Range(sys.selected_coins)
               outcome == [s \in selected |-> evaluation[s].outcome]
               market == [s \in selected |-> evaluation[s].market]
               evaluated ==
                   [s \in Symbols |->
                       IF s \in selected /\ trading_allowed(risk)
                       THEN Evaluated(evaluation[s])
                       ELSE NotEvaluated[s]]
           IN  /\ execution' = golden_hour(execution, risk, sys, outcome, market)
               /\ EndIterationWith("GOLDEN_HOUR", FALSE, 0, clock, evaluated)
    /\ UNCHANGED <<risk, sys>>

MainGoldenHour == GoldenHour(MainEvaluations)

MainManagement ==
    /\ Found("MANAGEMENT")
    /\ execution' = manage_positions(execution)
    /\ EndIteration("MANAGEMENT", manage_positions_raises(execution), 0, clock)
    /\ UNCHANGED <<risk, sys>>

MainExitWindow ==
    /\ Found("EXIT_WINDOW")
    /\ execution' = exit_positions(execution, TRUE)
    /\ EndIteration("EXIT_WINDOW", FALSE, 0, clock)
    /\ UNCHANGED <<risk, sys>>

MainShutdown ==
    /\ Found("SHUTDOWN")
    /\ execution' = exit_positions(execution, FALSE)
    /\ EndIteration("SHUTDOWN", FALSE, 0, wait_until_next_session(clock))
    /\ UNCHANGED <<risk, sys>>

(***************************************************************************)
(* The loop with orders (SpecTrading).  The loop as written opens no       *)
(* position: every evaluation ends at the score call, and a process that   *)
(* keeps to its 30 s rhythm is put to sleep until the next day by the      *)
(* SHUTDOWN it finds in the 19:15-19:30 gap.  SpecTrading has every        *)
(* behaviour of the loop as written and, beside them, those in which the   *)
(* score call returns (ScoredOutcomes) and in which the process is held up *)
(* between two iterations (TradingStall), so that the handlers of the      *)
(* later states are run on a handler that holds positions.                 *)
(***************************************************************************)
\* btc_atr_1h of thresholds.yaml: 2%, or 0.5%, below the 1% default volatility
TradingAtrThresholds == {200, 50}
\* the process is started as PRE_SESSION begins
TradingStartTimes == { time(18, 45) }
\* the exploration ends in the PRE_SESSION of the next day
TradingEnd == SecondsPerDay + time(19, 0)

\* the times of day at which determine_session_state changes its answer
WindowStarts ==
    { time(18, 45), time(19, 0), time(19, 15), time(19, 30),
      time(20, 30), time(22, 30), time(22, 45) }

\* seconds since the last of these times (or midnight)
since_change(now) ==
    LET t == time_of(now)
        past == {c \in WindowStarts \cup {0} : c <= t}
    IN  t - (CHOOSE c \in past : \A d \in past : d <= c)

\* iterations are explored in the first ExploredSeconds after a change
Explored == since_change(clock) < ExploredSeconds

TradingGoldenHour == GoldenHour(TradingEvaluations)

\* the process is held up (suspended, or an awaited fetch hangs) and goes on
\* one second after the next state change determine_session_state computes
TradingStall ==
    /\ clock' = session_at(clock).next_change + 1
    /\ UNCHANGED <<risk, risk_before, call, session, returned, execution, sys, loop>>

(***************************************************************************)
(* Specifications                                                          *)
(***************************************************************************)
\* thresholds.get('max_daily_drawdown', 0.015): the default of main.py
DefaultMaxDailyDrawdown == 150

(***************************************************************************)
(* Start-up on a thresholds file (specification SpecConfig).  The file is  *)
(* a dict that has any of the eight keys; the state begins when main.py    *)
(* has loaded it, before the components are constructed.                   *)
(***************************************************************************)
ThresholdKeys ==
    { "rsi_threshold", "ema_distance", "volume_spike", "wick_ratio", "vwap_deviation",
      "liquidation_proximity", "btc_atr_1h", "max_daily_drawdown" }

\* a complete file: the analytics thresholds, btc_atr_1h 2% and a
\* max_daily_drawdown of 1% (not the 1.5% main.py falls back to)
ThresholdsFile ==
    [ k \in ThresholdKeys |->
        IF k \in DOMAIN Thresholds THEN Thresholds[k]
        ELSE IF k = "btc_atr_1h" THEN 200 ELSE 100 ]
ThresholdsFiles == { [k \in K |-> ThresholdsFile[k]] : K \in SUBSET ThresholdKeys }

\* dict.get(key, default)
get(d, key, default) == IF key \in DOMAIN d THEN d[key] ELSE default

\* JakartaTradingSystem.__init__ after the files are loaded: the components
\* are constructed outside the try; the one subscript, thresholds['btc_atr_1h'],
\* raises KeyError on a file without the key
JakartaTradingSystem_init_raises(thresholds) == "btc_atr_1h" \notin DOMAIN thresholds

\* the RiskSystem it constructs
JakartaTradingSystem_init_risk(thresholds) ==
    RiskSystem_init(get(thresholds, "max_daily_drawdown", DefaultMaxDailyDrawdown),
                    thresholds["btc_atr_1h"])

\* the keys calculate_exhaustion_score and detect_entry_signals subscript
\* self.thresholds with on a frame of 20 bars or more
thresholds_read ==
    { "rsi_threshold", "volume_spike", "ema_distance", "liquidation_proximity",
      "wick_ratio", "vwap_deviation" }

\* how the two analytics calls of a trade evaluation end on an engine
\* holding `thresholds`
analytics_calls(form, thresholds) ==
    IF static_call_raises(arguments(form, AnalyticsEngine_init(thresholds), <<>>, Frac(0, 1)))
    THEN "TypeError"
    ELSE IF thresholds_read \subseteq DOMAIN thresholds THEN "returned" ELSE "KeyError"

ConfigConstruct ==
    /\ call.op = "load"
    /\ IF JakartaTradingSystem_init_raises(sys.thresholds)
       THEN /\ call' = [op |-> "__init__", raised |-> TRUE, ret |-> "KeyError"]
            /\ UNCHANGED <<risk, sys>>
       ELSE /\ call' = [op |-> "__init__", raised |-> FALSE, ret |-> "constructed"]
            /\ risk' = JakartaTradingSystem_init_risk(sys.thresholds)
            /\ sys' = [sys EXCEPT !.constructed = TRUE]
    /\ UNCHANGED <<risk_before, clock, session, returned, execution, loop>>

\* a trade evaluation of the running system reaches the analytics calls
ConfigEvaluate ==
    /\ sys.constructed
    /\ \E form \in CallForms :
           LET ret == analytics_calls(form, sys.thresholds)
           IN  call' = [op |-> "evaluate", raised |-> ret # "returned", ret |-> ret]
    /\ UNCHANGED <<risk, risk_before, clock, session, returned, execution, sys, loop>>

InitConfig ==
    /\ risk = RiskSystem_init(None, None)
    /\ risk_before = risk
    /\ call = [op |-> "load", raised |-> FALSE, ret |-> "loaded"]
    /\ clock = 0
    /\ session = SessionManager_init
    /\ returned = NoReturn
    /\ execution = ExecutionHandler_init
    /\ \E thresholds \in ThresholdsFiles :
           sys = [thresholds |-> thresholds, constructed |-> FALSE]
    /\ loop = NoLoop
NextConfig ==
    \/ ConfigConstruct
    \/ ConfigEvaluate
SpecConfig == InitConfig /\ [][NextConfig]_vars

InitObjects(limits) ==
    /\ \E d \in limits, a \in AtrThresholds : risk = RiskSystem_init(d, a)
    /\ risk_before = risk
    /\ call = NoCall
    /\ session = SessionManager_init
    /\ returned = NoReturn
    /\ execution = ExecutionHandler_init
    /\ sys = JakartaTradingSystem_init
    /\ loop = NoLoop

InitRisk == InitObjects(DrawdownLimits) /\ clock = 0
NextRisk ==
    \/ RiskResetDaily
    \/ RiskUpdatePnl
    \/ RiskCheckBtcVolatility
    \/ RiskCheckApiFailures
    \/ RiskTradingAllowed
SpecRisk == InitRisk /\ [][NextRisk]_vars

InitSession == InitObjects({DefaultMaxDailyDrawdown}) /\ clock \in ClockStarts
NextSession ==
    \/ SessTick
    \/ SessDetermine
    \/ SessNextStateInfo
    \/ SessShouldTrade
    \/ SessRestart
SpecSession == InitSession /\ [][NextSession]_vars

\* a handler alone, constructed with one of the risk budgets
InitHandler(budgets) ==
    /\ risk = RiskSystem_init(DefaultMaxDailyDrawdown, CHOOSE a \in AtrThresholds : TRUE)
    /\ risk_before = risk
    /\ call = NoExecCall
    /\ clock = 0
    /\ session = SessionManager_init
    /\ returned = NoReturn
    /\ \E r \in budgets : execution = [ExecutionHandler_init EXCEPT !.risk_per_trade = r]
    /\ sys = JakartaTradingSystem_init
    /\ loop = NoLoop

InitExec == InitHandler({Frac(DefaultRiskPerTrade, 1)})
NextExec ==
    \/ ExecSimulateOrder
    \/ ExecSimulateClose
SpecExec == InitExec /\ [][NextExec]_vars

InitSizing == InitHandler(RiskBudgets)
NextSizing ==
    \/ ExecCalculatePositionSize
    \/ ExecGenerateTpLevels
SpecSizing == InitSizing /\ [][NextSizing]_vars

InitAnalytics ==
    /\ risk = RiskSystem_init(DefaultMaxDailyDrawdown, CHOOSE a \in AtrThresholds : TRUE)
    /\ risk_before = risk
    /\ \E input \in AnalyticsInputs : call = NoAnalyticsCall(input)
    /\ clock = 0
    /\ session = SessionManager_init
    /\ returned = NoReturn
    /\ execution = ExecutionHandler_init
    /\ sys = JakartaTradingSystem_init
    /\ loop = NoLoop
NextAnalytics ==
    \/ AnalyticsDetectRsiDivergence
    \/ AnalyticsCalculateExhaustionScore
    \/ AnalyticsDetectEntrySignals
SpecAnalytics == InitAnalytics /\ [][NextAnalytics]_vars

InitTrading ==
    /\ \E a \in TradingAtrThresholds : risk = RiskSystem_init(DefaultMaxDailyDrawdown, a)
    /\ risk_before = risk
    /\ call = NoCall
    /\ clock \in TradingStartTimes
    /\ session = SessionManager_init
    /\ returned = NoReturn
    /\ execution = ExecutionHandler_init
    /\ sys = JakartaTradingSystem_init
    /\ loop = NoLoop
NextTrading ==
    /\ \/ Explored /\ MainPreSession
       \/ Explored /\ MainScanning
       \/ Explored /\ TradingGoldenHour
       \/ Explored /\ MainManagement
       \/ Explored /\ MainExitWindow
       \/ Explored /\ MainShutdown
       \/ TradingStall
    /\ clock' < TradingEnd
    /\ Len(execution'.trade_history) <= MaxHistory
    /\ Len(sys'.selected_coins) <= MaxTradingCoins
SpecTrading == InitTrading /\ [][NextTrading]_vars

InitMain == InitObjects({DefaultMaxDailyDrawdown}) /\ clock \in StartTimes
NextMain ==
    \/ MainPreSession
    \/ MainScanning
    \/ MainGoldenHour
    \/ MainManagement
    \/ MainExitWindow
    \/ MainShutdown
SpecMain == InitMain /\ [][NextMain]_vars

(***************************************************************************)
(* Risk engine properties (SpecRisk)                                       *)
(***************************************************************************)
NoBreakerSet(r) ==
    /\ ~ r.circuit_breakers["high_volatility"]
    /\ ~ r.circuit_breakers["api_failure"]
    /\ ~ r.circuit_breakers["exceeded_drawdown"]

\* C1: in every state reached by reset_daily, update_pnl, check_btc_volatility
\* and check_api_failures calls, trading_allowed() is true if and only if
\* high_volatility, api_failure and exceeded_drawdown are all false
C1_TradingAllowedIffNoBreaker ==
    /\ trading_allowed(risk) <=> NoBreakerSet(risk)
    /\ call.ret <=> NoBreakerSet(risk)

\* trading_allowed() was called with api_failure alone set, and returned false
C1_Witness ==
    /\ call.op = "trading_allowed"
    /\ ~ call.ret
    /\ risk.circuit_breakers["api_failure"]
    /\ ~ risk.circuit_breakers["high_volatility"]
    /\ ~ risk.circuit_breakers["exceeded_drawdown"]
    /\ risk.starting_balance # None

\* the day's loss, as a fraction of starting_balance, has reached the limit
LossAtLimit(r) ==
    /\ r.starting_balance # None
    /\ (0 - r.daily_pnl) * FractionScale >= r.max_daily_drawdown * r.starting_balance

\* C2: after reset_daily, once update_pnl has brought the day's loss to
\* max_daily_drawdown of the starting balance or more, exceeded_drawdown is
\* set and trading_allowed() is false
C2_DrawdownBreakerTrips ==
    (call.op = "update_pnl" /\ LossAtLimit(risk))
        => (risk.circuit_breakers["exceeded_drawdown"] /\ ~ trading_allowed(risk))

\* C3: check_api_failures(count) sets api_failure exactly when count > 5 or it
\* was set already, and once set api_failure stays true, with
\* trading_allowed() false, through every call other than reset_daily
C3_ApiFailureLatched ==
    [][ /\ call'.op = "check_api_failures"
            => (risk'.circuit_breakers["api_failure"]
                    <=> (risk.circuit_breakers["api_failure"] \/ call'.arg > 5))
        /\ (risk.circuit_breakers["api_failure"] /\ call'.op # "reset_daily")
            => (risk'.circuit_breakers["api_failure"] /\ ~ trading_allowed(risk')) ]_vars

\* check_api_failures was called with a count of 5 or less while api_failure
\* was set, and the breaker is still set
C3_Witness ==
    /\ call.op = "check_api_failures"
    /\ call.arg <= 5
    /\ risk_before.circuit_breakers["api_failure"]
    /\ risk.circuit_breakers["api_failure"]
    /\ ~ call.ret

\* C4: after every call check_btc_volatility(x), high_volatility equals
\* (x > btc_atr_threshold)
C4_VolatilityReevaluated ==
    call.op = "check_btc_volatility"
        => (risk.circuit_breakers["high_volatility"] <=> (call.arg > risk.btc_atr_threshold))

\* check_btc_volatility was called with the threshold itself while the
\* breaker was set, and cleared it
C4_Witness ==
    /\ call.op = "check_btc_volatility"
    /\ call.arg = risk.btc_atr_threshold
    /\ risk_before.circuit_breakers["high_volatility"]
    /\ ~ risk.circuit_breakers["high_volatility"]

\* C5 as stated: no call other than reset_daily changes any of the three
\* breakers from true to false
C5_EveryBreakerLatched ==
    [][ call'.op # "reset_daily"
            => \A k \in BreakerNames : risk.circuit_breakers[k] => risk'.circuit_breakers[k] ]_vars

\* C5 as amended: api_failure and exceeded_drawdown, once set, stay true
\* until the next reset_daily; high_volatility is re-evaluated by every
\* check_btc_volatility call, and besides reset_daily only such a call with a
\* value at or below the threshold changes it from true to false
C5_LatchedExceptVolatility ==
    [][ call'.op # "reset_daily"
            => /\ \A k \in {"api_failure", "exceeded_drawdown"} :
                      risk.circuit_breakers[k] => risk'.circuit_breakers[k]
               /\ (risk.circuit_breakers["high_volatility"]
                       /\ ~ risk'.circuit_breakers["high_volatility"])
                      => (call'.op = "check_btc_volatility"
                             /\ call'.arg <= risk.btc_atr_threshold) ]_vars

\* with all three breakers set, a check_btc_volatility call cleared
\* high_volatility and left the other two set
C5_Witness ==
    /\ call.op = "check_btc_volatility"
    /\ \A k \in BreakerNames : risk_before.circuit_breakers[k]
    /\ ~ risk.circuit_breakers["high_volatility"]
    /\ risk.circuit_breakers["api_failure"]
    /\ risk.circuit_breakers["exceeded_drawdown"]

\* C6: after reset_daily, from any state, daily_pnl is 0, starting_balance is
\* the current balance, all breakers are false and trading_allowed() is true,
\* the configuration is kept, and a second reset_daily changes nothing
C6_ResetDaily ==
    call.op = "reset_daily"
        => /\ risk.daily_pnl = 0
           /\ risk.starting_balance = get_current_balance(risk)
           /\ NoBreakerSet(risk)
           /\ call.ret
           /\ risk.max_daily_drawdown = risk_before.max_daily_drawdown
           /\ risk.btc_atr_threshold = risk_before.btc_atr_threshold
           /\ reset_daily(risk) = risk

\* reset_daily was called with a loss booked and all three breakers set
C6_Witness ==
    /\ call.op = "reset_daily"
    /\ risk_before.daily_pnl < 0
    /\ \A k \in BreakerNames : risk_before.circuit_breakers[k]
    /\ risk.daily_pnl = 0


\* C32: the breakers are independent: check_btc_volatility changes only
\* high_volatility, check_api_failures only api_failure, update_pnl only
\* daily_pnl and exceeded_drawdown, trading_allowed() nothing; none of them
\* changes starting_balance
C32_BreakersIndependent ==
    /\ call.op = "check_btc_volatility"
           => risk = [risk_before EXCEPT !.circuit_breakers["high_volatility"] =
                                            risk.circuit_breakers["high_volatility"]]
    /\ call.op = "check_api_failures"
           => risk = [risk_before EXCEPT !.circuit_breakers["api_failure"] =
                                            risk.circuit_breakers["api_failure"]]
    /\ call.op = "update_pnl"
           => risk = [risk_before EXCEPT !.daily_pnl = risk.daily_pnl,
                                         !.circuit_breakers["exceeded_drawdown"] =
                                            risk.circuit_breakers["exceeded_drawdown"]]
    /\ call.op = "trading_allowed" => risk = risk_before
    /\ call.op \in {"check_btc_volatility", "check_api_failures", "update_pnl",
                    "trading_allowed"}
           => risk.starting_balance = risk_before.starting_balance

\* check_api_failures tripped api_failure on an object whose high_volatility
\* breaker was set and whose exceeded_drawdown breaker was not, and left both
\* as they were
C32_Witness ==
    /\ call.op = "check_api_failures"
    /\ risk.circuit_breakers["api_failure"] /\ ~ risk_before.circuit_breakers["api_failure"]
    /\ risk.circuit_breakers["high_volatility"]
    /\ ~ risk.circuit_breakers["exceeded_drawdown"]
    /\ risk.starting_balance = StaticBalance
    /\ risk.daily_pnl # 0

(***************************************************************************)
(* Session state machine properties (SpecSession)                          *)
(***************************************************************************)
\* the session windows as specified: [start, end) in Jakarta local time
WindowOf(t) ==
    IF time(18, 45) <= t /\ t < time(19, 0) THEN "PRE_SESSION"
    ELSE IF time(19, 0) <= t /\ t < time(19, 15) THEN "SCANNING"
    ELSE IF time(19, 30) <= t /\ t < time(20, 30) THEN "GOLDEN_HOUR"
    ELSE IF time(20, 30) <= t /\ t < time(22, 30) THEN "MANAGEMENT"
    ELSE IF time(22, 30) <= t /\ t < time(22, 45) THEN "EXIT_WINDOW"
    ELSE "SHUTDOWN"

\* the end of each named window and the named state that follows it
WindowEnd(w) ==
    CASE w = "PRE_SESSION" -> time(19, 0)
      [] w = "SCANNING"    -> time(19, 15)
      [] w = "GOLDEN_HOUR" -> time(20, 30)
      [] w = "MANAGEMENT"  -> time(22, 30)
      [] w = "EXIT_WINDOW" -> time(22, 45)

WindowFollower(w) ==
    CASE w = "PRE_SESSION" -> "SCANNING"
      [] w = "SCANNING"    -> "GOLDEN_HOUR"
      [] w = "GOLDEN_HOUR" -> "MANAGEMENT"
      [] w = "MANAGEMENT"  -> "EXIT_WINDOW"
      [] w = "EXIT_WINDOW" -> "SHUTDOWN"

NamedWindows == {"PRE_SESSION", "SCANNING", "GOLDEN_HOUR", "MANAGEMENT", "EXIT_WINDOW"}

\* the instants of a day at which the specified state changes
ChangeTimes ==
    { time(18, 45), time(19, 0), time(19, 15), time(19, 30),
      time(20, 30), time(22, 30), time(22, 45) }

\* the earliest instant after `now` at which the specified state changes
NextChangeAfter(now) ==
    LET midnight == now - time_of(now)
        today == {c \in ChangeTimes : c > time_of(now)}
    IN  IF today = {}
        THEN midnight + SecondsPerDay + time(18, 45)
        ELSE midnight + (CHOOSE c \in today : \A d \in today : c <= d)

\* C7: determine_session_state returns PRE_SESSION iff 18:45 <= t < 19:00,
\* SCANNING iff 19:00 <= t < 19:15, GOLDEN_HOUR iff 19:30 <= t < 20:30,
\* MANAGEMENT iff 20:30 <= t < 22:30, EXIT_WINDOW iff 22:30 <= t < 22:45 and
\* SHUTDOWN otherwise: the end instant of a window belongs to what follows
C7_WindowsHalfOpen ==
    returned.op = "determine_session_state"
        => returned.state = WindowOf(time_of(returned.at))

\* C8: on a fresh SessionManager, a call inside GOLDEN_HOUR returns
\* GOLDEN_HOUR and stores MANAGEMENT at 20:30 of the same day, and a call that
\* returns any named window stores the state that follows the window and the
\* time the window ends
C8_FreshCallStoresWindowEnd ==
    (returned.op = "determine_session_state" /\ returned.fresh)
        => /\ WindowOf(time_of(returned.at)) = "GOLDEN_HOUR"
                  => /\ returned.state = "GOLDEN_HOUR"
                     /\ session.next_state_name = "MANAGEMENT"
                     /\ session.next_state_change = replace(returned.at, 20, 30)
           /\ returned.state \in NamedWindows
                  => /\ session.next_state_name = WindowFollower(returned.state)
                     /\ session.next_state_change
                            = (returned.at - time_of(returned.at)) + WindowEnd(returned.state)

\* C9: after every call of determine_session_state, at non-decreasing times,
\* next_state_change is the earliest later instant at which the session
\* state changes and next_state_name is the state in force from then
C9_StoredNextTransition ==
    returned.op = "determine_session_state"
        => /\ session.next_state_change = NextChangeAfter(returned.at)
           /\ session.next_state_name = WindowOf(time_of(NextChangeAfter(returned.at)))

\* C28: the state determine_session_state returns depends on the Jakarta
\* local time alone: a manager with any history of earlier calls returns what
\* a freshly constructed manager returns at the same instant
C28_StateFromClockOnly ==
    returned.op = "determine_session_state"
        => returned.state = determine_session_state_result(SessionManager_init, returned.at)

\* a manager with earlier calls returned the state while its stored next
\* change was not the one a fresh manager stores at that instant
C28_Witness ==
    /\ returned.op = "determine_session_state"
    /\ ~ returned.fresh
    /\ returned.state = "SHUTDOWN"
    /\ session.current_state = returned.state
    /\ session.next_state_change
           # determine_session_state(SessionManager_init, returned.at).next_state_change

\* C36: should_trade() is true only when the state is GOLDEN_HOUR; it is
\* false in PRE_SESSION, SCANNING, MANAGEMENT, EXIT_WINDOW and SHUTDOWN
C36_ShouldTradeOnlyGoldenHour ==
    returned.op = "should_trade"
        => (returned.allowed <=> returned.state = "GOLDEN_HOUR")

(***************************************************************************)
(* Analytics properties (SpecAnalytics)                                    *)
(***************************************************************************)
\* the bars before the last of the final W+1 bars of df, the greatest high
\* among them, and the earliest of them holding it
ReferenceWindow(df, W) == (Len(df) - W)..(Len(df) - 1)
ReferenceBar(df, W) ==
    LET window == ReferenceWindow(df, W)
        highest == {i \in window : \A k \in window : LessEq(df[k].high, df[i].high)}
    IN  CHOOSE i \in highest : \A k \in highest : i <= k

\* C23: detect_rsi_divergence(series, W) returns false with fewer than W+1
\* bars; otherwise true iff the last bar's rsi is above 70, its high is
\* strictly above the greatest high of the W bars before it, and its rsi is
\* strictly below the rsi of the earliest bar holding that high; so it is
\* false whenever the last rsi is 70 or less
C23_RsiDivergence ==
    call.op = "detect_rsi_divergence"
        => LET df == call.arg.df
               W == call.arg.lookback
               last == df[Len(df)]
               reference == df[ReferenceBar(df, W)]
           IN  /\ ~ call.raised
               /\ Len(df) < W + 1 => call.ret = FALSE
               /\ Len(df) >= W + 1
                      => /\ call.ret <=> /\ Less(Frac(70, 1), last.rsi)
                                         /\ Less(reference.high, last.high)
                                         /\ Less(last.rsi, reference.rsi)
                         /\ LessEq(last.rsi, Frac(70, 1)) => call.ret = FALSE

\* the detector returned true with the default lookback where two of the
\* five earlier bars hold the greatest high and the later of them has an rsi
\* below the last bar's
C23_Witness ==
    /\ call.op = "detect_rsi_divergence"
    /\ call.arg.lookback = DefaultLookback
    /\ Len(call.arg.df) > DefaultLookback
    /\ call.ret = TRUE
    /\ LET df == call.arg.df
           first == ReferenceBar(df, DefaultLookback)
       IN  \E k \in ReferenceWindow(df, DefaultLookback) :
               /\ k > first
               /\ df[k].high = df[first].high
               /\ Less(df[k].rsi, df[Len(df)].rsi)

AllFalse ==
    [ ema_ok |-> FALSE, rsi_ok |-> FALSE, vol_ok |-> FALSE, wick_ok |-> FALSE,
      vwap_ok |-> FALSE, liq_ok |-> FALSE, all_ok |-> FALSE ]

\* C21: for a series of fewer than 20 bars and any liquidation price,
\* calculate_exhaustion_score returns 0.0 and detect_entry_signals returns
\* the seven fields all false, and neither call raises
C21_ShortSeriesInert ==
    Len(call.arg.df) < 20
        => /\ call.op = "calculate_exhaustion_score"
                  => (~ call.raised /\ call.ret = Frac(0, 1))
           /\ call.op = "detect_entry_signals"
                  => (~ call.raised /\ call.ret = AllFalse)

\* C22: for a series of at least 20 bars whose last wick_ratio is in [0,1],
\* the call returns a score in [0,10], the sum of five components lying in
\* [0,3], [0,2.5], [0,2], [0,1.5] and [0,1], capped at 10
C22_ScoreInRange ==
    LET df == call.arg.df
        Within(x, top) == LessEq(Frac(0, 1), x) /\ LessEq(x, top)
        c == score_components(AnalyticsEngine_init(Thresholds), df, call.arg.liquidation_price)
    IN  ( /\ call.op = "calculate_exhaustion_score"
          /\ Len(df) >= 20
          /\ Within(df[Len(df)].wick_ratio, Frac(1, 1)) )
            => /\ ~ call.raised
               /\ Within(call.ret, Frac(10, 1))
               /\ Within(c.rsi, Frac(3, 1))
               /\ Within(c.wick, Frac(25, 10))
               /\ Within(c.volume, Frac(2, 1))
               /\ Within(c.ema, Frac(15, 10))
               /\ Within(c.liquidation, Frac(1, 1))
               /\ call.ret = min(total_score(c), Frac(10, 1))

\* all_ok is the conjunction of the six gates
AllOkIsConjunction(signals) ==
    signals.all_ok <=> /\ signals.ema_ok /\ signals.rsi_ok /\ signals.vol_ok
                       /\ signals.wick_ok /\ signals.vwap_ok /\ signals.liq_ok

\* the last bar's rsi exceeds rsi_threshold and the detector returns true
RsiGate(df) ==
    /\ Less(Thresholds.rsi_threshold, df[Len(df)].rsi)
    /\ detect_rsi_divergence(df, DefaultLookback)

\* C24 as stated: in every signal set returned, all_ok is the conjunction of
\* the six gates and rsi_ok is true iff the last bar's rsi exceeds
\* rsi_threshold and the divergence detector returns true for the series
C24_SignalSet ==
    (call.op = "detect_entry_signals" /\ ~ call.raised /\ Len(call.arg.df) > 0)
        => /\ AllOkIsConjunction(call.ret)
           /\ call.ret.rsi_ok <=> RsiGate(call.arg.df)

\* C24 as amended: in every signal set returned, all_ok is the conjunction of
\* the six gates; for a series of at least 20 bars rsi_ok is true iff the
\* last bar's rsi exceeds rsi_threshold and the divergence detector returns
\* true for the series, and for a shorter series rsi_ok is false
C24_SignalSetFromTwentyBars ==
    (call.op = "detect_entry_signals" /\ ~ call.raised)
        => /\ AllOkIsConjunction(call.ret)
           /\ Len(call.arg.df) >= 20 => (call.ret.rsi_ok <=> RsiGate(call.arg.df))
           /\ Len(call.arg.df) < 20 => ~ call.ret.rsi_ok

\* a signal set was returned with all seven fields true
C24_Witness ==
    /\ call.op = "detect_entry_signals"
    /\ ~ call.raised
    /\ Len(call.arg.df) >= 20
    /\ call.ret.rsi_ok
    /\ call.ret.all_ok

(***************************************************************************)
(* Orchestration properties (SpecMain)                                     *)
(***************************************************************************)
\* C10: reset_daily is invoked exactly once per trading day, at the
\* transition into PRE_SESSION: never twice in a day, and once by the time
\* the loop has iterated in PRE_SESSION and moved on to a later state
C10_ResetOncePerDay ==
    /\ loop.resets <= 1
    /\ (loop.pre_iterations > 0 /\ loop.state # "PRE_SESSION") => loop.resets = 1

\* C29: a process that has iterated in PRE_SESSION and in SCANNING is not put
\* to sleep until the next day before it has iterated in GOLDEN_HOUR on the
\* same evening
C29_GoldenHourSameEvening ==
    (loop.pre_iterations > 0 /\ loop.scan_iterations > 0 /\ day_of(clock) > loop.day)
        => loop.golden_iterations > 0

\* the order records of a trade history, and the symbols with a position
OrderRecords(h) == {i \in DOMAIN h : h[i].kind = "order"}
OpenSymbols(exec) == {exec.open_positions[i].symbol : i \in DOMAIN exec.open_positions}

(***************************************************************************)
(* Orchestration properties with positions (SpecTrading)                   *)
(***************************************************************************)
\* C11: a step of the loop adds an order record or a symbol to
\* open_positions only if the iteration found GOLDEN_HOUR and
\* trading_allowed() was true; no iteration in PRE_SESSION, SCANNING,
\* MANAGEMENT, EXIT_WINDOW or SHUTDOWN adds an entry to open_positions
C11_OpensOnlyInGoldenHour ==
    [][ ( \/ Cardinality(OrderRecords(execution'.trade_history))
                 > Cardinality(OrderRecords(execution.trade_history))
          \/ ~ (OpenSymbols(execution') \subseteq OpenSymbols(execution)) )
            => (Found("GOLDEN_HOUR") /\ trading_allowed(risk)) ]_vars

\* a GOLDEN_HOUR iteration with trading allowed has opened a position
C11_Witness ==
    /\ loop.state = "GOLDEN_HOUR"
    /\ trading_allowed(risk)
    /\ Len(execution.trade_history) > Len(loop.before.trade_history)
    /\ Len(execution.open_positions) > Len(loop.before.open_positions)

\* C12: after a SHUTDOWN iteration open_positions is empty, every position
\* the iteration found open is marked closed, and the iteration has appended
\* one 100% close record for each of them and nothing else
C12_ShutdownClosesAll ==
    loop.state = "SHUTDOWN"
        => LET held == loop.before.open_positions
               h0 == loop.before.trade_history
               h == execution.trade_history
           IN  /\ execution.open_positions = <<>>
               /\ Len(h) = Len(h0) + Len(held)
               /\ \A i \in DOMAIN held :
                      /\ h[held[i].ref].kind = "order"
                      /\ h[held[i].ref].symbol = held[i].symbol
                      /\ h[held[i].ref].status = "closed"
                      /\ h[Len(h0) + i].kind = "close"
                      /\ h[Len(h0) + i].symbol = held[i].symbol
                      /\ h[Len(h0) + i].percentage = 100
                      /\ h[Len(h0) + i].size = held[i].size

\* a SHUTDOWN iteration found two positions open
C12_Witness ==
    /\ loop.state = "SHUTDOWN"
    /\ Len(loop.before.open_positions) >= 2
    /\ execution.open_positions = <<>>

OrderedNow ==
    { execution.trade_history[i].symbol :
        i \in { k \in OrderRecords(execution.trade_history) :
                  k > Len(loop.before.trade_history) } }
OutcomeOf(s) == loop.evaluated[s].outcome

\* C25: in a GOLDEN_HOUR iteration no order is opened for a symbol without a
\* liquidation cluster, and the other selected symbols are still evaluated:
\* those whose evaluation ends in a signal get their order
C25_NoClusterNoOrder ==
    loop.state = "GOLDEN_HOUR"
        => \A s \in Symbols :
               OutcomeOf(s) = "no_liquidation"
                   => /\ s \notin OrderedNow
                      /\ \A s2 \in Symbols : OutcomeOf(s2) = "signal" => s2 \in OrderedNow

\* the first of two selected symbols had no cluster and no order, and the
\* second was evaluated and got its order
C25_Witness ==
    /\ loop.state = "GOLDEN_HOUR"
    /\ Len(sys.selected_coins) = 2
    /\ OutcomeOf(sys.selected_coins[1]) = "no_liquidation"
    /\ OutcomeOf(sys.selected_coins[2]) = "signal"
    /\ OrderedNow = {sys.selected_coins[2]}
    /\ OpenSymbols(execution) = {sys.selected_coins[2]}

\* C26: after a GOLDEN_HOUR iteration with trading allowed, every selected
\* symbol that had candles, a liquidation cluster and a non-empty indicator
\* frame with a score of at least 7.0 and all_ok true has a sell order in
\* trade_history and is in open_positions
C26_OrderWhenConditionsMet ==
    loop.state = "GOLDEN_HOUR"
        => \A s \in Symbols :
               loop.evaluated[s].met
                   => /\ s \in OrderedNow
                      /\ s \in OpenSymbols(execution)
                      /\ execution.open_positions[position_index(execution, s)].side = "sell"

\* C27: the loop is never ended by a failure: after every iteration it goes
\* on, whether or not the state handler raised; and in a GOLDEN_HOUR
\* iteration a symbol whose evaluation raised has no order while the symbols
\* whose evaluation ends in a signal have theirs
C27_LoopSurvivesFailures ==
    /\ loop.running
    /\ loop.state = "GOLDEN_HOUR"
           => \A s \in Symbols :
                  OutcomeOf(s) = "score_raises"
                      => /\ s \notin OrderedNow
                         /\ \A s2 \in Symbols : OutcomeOf(s2) = "signal" => s2 \in OrderedNow

\* the handler of a MANAGEMENT iteration raised on an open position, and the
\* loop goes on
C27_Witness ==
    /\ loop.state = "MANAGEMENT"
    /\ loop.raised
    /\ loop.running
    /\ execution.open_positions # <<>>

\* C33: every order the orchestrator opens is a sell order, placed only for a
\* symbol whose score was at least 7.0 and whose all_ok was true in that
\* iteration, and never for a symbol whose indicator frame was empty
C33_OrdersOnlyOnSignal ==
    /\ \A i \in OrderRecords(execution.trade_history) :
           execution.trade_history[i].side = "sell"
    /\ loop.state = "GOLDEN_HOUR"
           => \A s \in OrderedNow :
                  /\ loop.evaluated[s].met
                  /\ OutcomeOf(s) \notin {"empty_indicators", "conditions_not_met"}

\* of two selected symbols the one whose data met both conditions got a sell
\* order and the one whose score was at least 7.0 with all_ok false got none
C33_Witness ==
    /\ loop.state = "GOLDEN_HOUR"
    /\ \E s, s2 \in Range(sys.selected_coins) :
           /\ OrderedNow = {s}
           /\ loop.evaluated[s].met
           /\ execution.open_positions[position_index(execution, s)].side = "sell"
           /\ OutcomeOf(s2) = "conditions_not_met"
           /\ loop.evaluated[s2].liq_clusters # loop.evaluated[s].liq_clusters
           /\ loop.evaluated[s2].close = loop.evaluated[s].close

\* the cluster prices nearest to `close` among `liq_clusters`
Nearest(close, liq_clusters) ==
    { liq_clusters[i].price : i \in
        { k \in DOMAIN liq_clusters :
            \A j \in DOMAIN liq_clusters :
                LessEq(abs(Sub(liq_clusters[k].price, close)),
                       abs(Sub(liq_clusters[j].price, close))) } }

\* C34: the liquidation price a symbol is scored and gated with is the price
\* of the cluster nearest to the current close among the clusters fetched
C34_NearestClusterUsed ==
    loop.state = "GOLDEN_HOUR"
        => \A s \in Symbols :
               loop.evaluated[s].liq_clusters # <<>>
                   => loop.evaluated[s].nearest_liq
                          \in Nearest(loop.evaluated[s].close, loop.evaluated[s].liq_clusters)

\* C37: a thresholds file missing any of the eight keys stops the system at
\* start-up: with such a file the system is never constructed, so no key is
\* defaulted and none is first missed during a trade evaluation
C37_MissingKeyFatalAtStartup ==
    (call.op \in {"__init__", "evaluate"} /\ DOMAIN sys.thresholds # ThresholdKeys)
        => (call.op = "__init__" /\ call.raised)

\* C31: a MANAGEMENT iteration only monitors: a step taken while the state
\* is MANAGEMENT leaves open_positions (symbols, sizes, statuses),
\* trade_history, daily_pnl and the three breakers as they were
C31_ManagementOnlyMonitors ==
    [][ Found("MANAGEMENT") => (execution' = execution /\ risk' = risk) ]_vars

\* a MANAGEMENT iteration met two open positions and left the handler and
\* the breakers as they were
C31_Witness ==
    /\ loop.state = "MANAGEMENT"
    /\ Len(execution.open_positions) = 2
    /\ execution = loop.before
    /\ \A i \in DOMAIN execution.open_positions :
           execution.trade_history[execution.open_positions[i].ref].status = "open"
    /\ trading_allowed(risk)

RECURSIVE SumSizes(_, _)
SumSizes(h, idx) ==
    IF idx = {} THEN Frac(0, 1)
    ELSE LET i == CHOOSE k \in idx : TRUE
         IN  Add(h[i].size, SumSizes(h, idx \ {i}))

\* the last order record of `symbol` in h, and the close records of the
\* symbol after it
LastOrder(h, symbol) ==
    LET orders == {i \in OrderRecords(h) : h[i].symbol = symbol}
    IN  CHOOSE i \in orders : \A k \in orders : k <= i
ClosesSince(h, symbol) ==
    {i \in DOMAIN h : i > LastOrder(h, symbol) /\ h[i].kind = "close" /\ h[i].symbol = symbol}

\* C14: every simulate_close call on an open symbol appends exactly one close
\* record, for that symbol; and when the call closes 100% of a position
\* opened with size S, after any partial closes, the symbol is absent from
\* open_positions, the order is marked closed, and the sizes of the close
\* records made since the order sum to S
C14_ClosesSumToOpenedSize ==
    [][ (call'.op = "simulate_close" /\ position_index(execution, call'.arg.symbol) # 0)
            => LET symbol == call'.arg.symbol
                   h == execution.trade_history
                   h2 == execution'.trade_history
               IN  /\ Len(h2) = Len(h) + 1
                   /\ h2[Len(h2)].kind = "close"
                   /\ h2[Len(h2)].symbol = symbol
                   /\ \A i \in DOMAIN h : h2[i].kind = h[i].kind
                   /\ call'.arg.percentage = 100
                          => /\ position_index(execution', symbol) = 0
                             /\ h2[LastOrder(h2, symbol)].status = "closed"
                             /\ \A i \in ClosesSince(h, symbol) :
                                    h[i].percentage > 0 /\ h[i].percentage < 100
                             /\ SumSizes(h2, ClosesSince(h2, symbol)) = call'.opened[symbol] ]_vars

\* an order was closed by two partial closes and then a 100% close
C14_Witness ==
    LET h == execution.trade_history
    IN  /\ call.op = "simulate_close"
        /\ call.arg.percentage = 100
        /\ Len(h) = 4
        /\ h[1].kind = "order" /\ h[1].status = "closed"
        /\ \A i \in 2..4 : h[i].kind = "close" /\ h[i].symbol = h[1].symbol
        /\ h[2].percentage < 100 /\ h[3].percentage < 100
        /\ execution.open_positions = <<>>

\* C15: simulate_close on a symbol with no open position returns None, does
\* not raise, and leaves open_positions and trade_history unchanged
C15_CloseWithoutPosition ==
    [][ (call'.op = "simulate_close" /\ position_index(execution, call'.arg.symbol) = 0)
            => /\ call'.ret = NoneResult
               /\ ~ call'.raised
               /\ execution'.open_positions = execution.open_positions
               /\ execution'.trade_history = execution.trade_history ]_vars

\* simulate_close returned None for a symbol whose position had been closed
\* in full, while the other symbol had a position
C15_Witness ==
    LET h == execution.trade_history
    IN  /\ call.op = "simulate_close"
        /\ call.ret = NoneResult
        /\ position_index(execution, call.arg.symbol) = 0
        /\ \E i \in OrderRecords(h) : h[i].symbol = call.arg.symbol /\ h[i].status = "closed"
        /\ execution.open_positions # <<>>

\* C16: simulate_close with a percentage above 100 is rejected: it returns
\* no close order and leaves open_positions and trade_history unchanged
C16_CloseAboveHundredRejected ==
    [][ (call'.op = "simulate_close" /\ call'.arg.percentage > 100)
            => /\ call'.ret = NoneResult
               /\ execution' = execution ]_vars

\* C17: each symbol has at most one order record with status 'open' (an
\* order in open_positions is its record in trade_history)
C17_OneOpenOrderPerSymbol ==
    \A symbol \in Symbols :
        Cardinality({ i \in OrderRecords(execution.trade_history) :
                        /\ execution.trade_history[i].symbol = symbol
                        /\ execution.trade_history[i].status = "open" }) <= 1

\* C35: every order recorded with a positive sl_distance has its stop on the
\* losing side of the entry: above the entry price for a sell, below it for
\* a buy
C35_StopOnLosingSide ==
    \A i \in OrderRecords(execution.trade_history) :
        LET order == execution.trade_history[i]
        IN  IF order.side = "sell" THEN Less(order.price, order.sl)
            ELSE Less(order.sl, order.price)

\* C38: trade_history is append-only and complete: every simulate_order call
\* and every simulate_close call on an open symbol appends exactly one
\* record, a simulate_close on a symbol without a position appends none, no
\* record is removed, and a symbol is in open_positions exactly when its
\* most recent order has status 'open'
C38_HistoryAppendOnly ==
    [][ LET h == execution.trade_history
            h2 == execution'.trade_history
        IN  /\ Len(h2) >= Len(h)
            /\ \A i \in DOMAIN h :
                   /\ h2[i].kind = h[i].kind
                   /\ h2[i].symbol = h[i].symbol
                   /\ h2[i].side = h[i].side
            /\ call'.op = "simulate_order"
                   => /\ Len(h2) = Len(h) + 1
                      /\ h2[Len(h2)].kind = "order"
                      /\ h2[Len(h2)].symbol = call'.arg.symbol
            /\ call'.op = "simulate_close"
                   => IF position_index(execution, call'.arg.symbol) # 0
                      THEN /\ Len(h2) = Len(h) + 1
                           /\ h2[Len(h2)].kind = "close"
                           /\ h2[Len(h2)].symbol = call'.arg.symbol
                      ELSE h2 = h
            /\ \A s \in Symbols :
                   position_index(execution', s) # 0
                       <=> /\ \E k \in OrderRecords(h2) : h2[k].symbol = s
                           /\ h2[LastOrder(h2, s)].status = "open" ]_vars

\* after two orders for one symbol, a partial and a full close, a further
\* simulate_close of the symbol found no position and recorded nothing
C38_Witness ==
    LET h == execution.trade_history
    IN  /\ call.op = "simulate_close"
        /\ call.ret = NoneResult
        /\ Len(h) = 4
        /\ h[1].kind = "order" /\ h[2].kind = "order" /\ h[2].symbol = h[1].symbol
        /\ h[3].kind = "close" /\ h[4].kind = "close"
        /\ h[2].status = "closed"
        /\ call.arg.symbol = h[1].symbol
        /\ execution.open_positions = <<>>

(***************************************************************************)
(* Position sizing and take-profit levels (SpecSizing)                     *)
(***************************************************************************)
\* C19: calculate_position_size(entry, atr, v) returns
\* risk_per_trade / (entry * multiplier * atr) with multiplier 0.50 for
\* v < 1%, 0.42 for 1% <= v < 2% and 0.30 for v >= 2%, times 0.6 only when
\* v > 2%; it changes no handler state
C19_PositionSize ==
    [][ call'.op = "calculate_position_size"
            => LET a == call'.arg
                   v == a.btc_volatility
                   multiplier == IF v < 100 THEN Frac(1, 2)
                                 ELSE IF v < 200 THEN Frac(21, 50)
                                 ELSE Frac(3, 10)
                   budget == IF v > 200 THEN Mul(execution.risk_per_trade, Frac(3, 5))
                             ELSE execution.risk_per_trade
               IN  /\ Mul(Mul(Mul(call'.ret, a.entry_price), multiplier), a.atr) = budget
                   /\ execution' = execution ]_vars

\* the call with volatility exactly 2%, entry 60000, ATR 1500 and a budget
\* of 100 returned 100 / (60000 * 0.30 * 1500), without the reduction
C19_Witness ==
    /\ call.op = "calculate_position_size"
    /\ call.arg.btc_volatility = 200
    /\ call.arg.entry_price = Frac(60000, 1)
    /\ call.arg.atr = Frac(1500, 1)
    /\ execution.risk_per_trade = Frac(100, 1)
    /\ call.ret = Frac(1, 270000)

\* C39: for fixed entry and atr the size calculate_position_size returns
\* never increases as btc_volatility increases: no higher volatility gives a
\* larger size than the one the call returned
C39_SizeMonotone ==
    call.op = "calculate_position_size"
        => \A v \in BtcVolatilities :
               v >= call.arg.btc_volatility
                   => LessEq(calculate_position_size(execution, call.arg.entry_price,
                                                     call.arg.atr, v),
                             call.ret)

\* C20: generate_tp_levels(entry, atr) returns three levels, in order, with
\* prices entry - atr, entry - 2 atr, entry - 3 atr and weights 50, 30, 20,
\* which sum to 100; it changes no handler state
C20_TpLevels ==
    [][ call'.op = "generate_tp_levels"
            => LET a == call'.arg
                   levels == call'.ret
               IN  /\ Len(levels) = 3
                   /\ \A k \in 1..3 :
                          Add(levels[k].price, Mul(Frac(k, 1), a.atr)) = a.entry
                   /\ levels[1].size = 50 /\ levels[2].size = 30 /\ levels[3].size = 20
                   /\ levels[1].size + levels[2].size + levels[3].size = 100
                   /\ execution' = execution ]_vars

\* the call with entry 60000 and ATR 1500 returned 58500, 57000, 55500
C20_Witness ==
    /\ call.op = "generate_tp_levels"
    /\ call.arg.entry = Frac(60000, 1)
    /\ call.arg.atr = Frac(1500, 1)
    /\ call.ret[1].price = Frac(58500, 1)
    /\ call.ret[2].price = Frac(57000, 1)
    /\ call.ret[3].price = Frac(55500, 1)

=============================================================================
